---- MODULE Spec2Model ----
(***************************************************************************)
(* A model of the bunqers client: the signed messenger (messenger.rs), the *)
(* envelope codec (deserialization.rs, types.rs), the credential state     *)
(* machine (client_builder.rs) and the session client (client.rs).         *)
(*                                                                         *)
(* Several specifications share the module:                                *)
(*   Spec      the credential state machine and the client, one action per *)
(*             operation of ClientBuilder / Client;                        *)
(*   SpecSend  one call of Messenger<Verified>::send, one action per step  *)
(*             of its body (request, 429 back-off, header, read, verify,   *)
(*             parse, return);                                             *)
(*   SpecRecovery  the recovery flow of examples/example.rs: main and the  *)
(*             try_from_* functions, one action per transition attempted;  *)
(*   SpecCodec the envelope decoder applied to the bodies a server can     *)
(*             send, for every payload type the library asks for;          *)
(*   SpecSendFair  SpecSend with the call scheduled until it ends;         *)
(*   SpecCancel  SpecSend under a caller whose timeout fires and who drops *)
(*             the call at an await;                                       *)
(*   SpecStorage  the flat record of the example: a credential is stored   *)
(*             in context.json and loaded back;                            *)
(*   SpecClients  two clients, each in one call of send, interleaved;      *)
(*   SpecRecoveryFair  SpecRecovery with main running to its end.          *)
(***************************************************************************)
EXTENDS Integers, Sequences, FiniteSets, TLC

VARIABLES
    stage,      \* what the caller holds: the type parameter of ClientBuilder<T>, "Client" or "Aborted"
    context,    \* the credential held (ClientBuilder.context / Client.context)
    messenger,  \* Client.messenger: Some(messenger) once a Client is built
    last,       \* the last operation: its input, the answers it got, what it returned, the requests it issued
    issued,     \* what the server handed out last: tokens, public key, ids
    pc,         \* SpecSend: position in Messenger<Verified>::send
    call,       \* SpecSend: the messenger and the arguments of the call
    sent,       \* SpecSend: the requests issued so far by the call
    received,   \* SpecSend: the responses received so far by the call
    response,   \* SpecSend: the response in hand
    verdict,    \* SpecSend: what verify_body_signature returned for the response in hand
    parsed,     \* SpecSend: whether the body was handed to serde_json::from_slice
    outcome,    \* SpecSend: how the call ended
    cancelled,  \* whether the caller's timeout around the call has fired
    stored,     \* the ContextStorage in the file context.json of the example
    peer,       \* the send call of a second client, while it is not the one taking steps
    dump_file   \* the file data_dump.json: who wrote it last and what

vars == <<stage, context, messenger, last, issued,
          pc, call, sent, received, response, verdict, parsed, outcome,
          cancelled, stored, peer, dump_file>>
credVars == <<stage, context, messenger, last, issued>>
sendVars == <<pc, call, sent, received, response, verdict, parsed, outcome>>
hostVars == <<cancelled, stored, peer, dump_file>>

----------------------------------------------------------------------------
(* Bounds of the model.                                                    *)

\* distinct client private keys
NumClientKeys == 2
\* distinct server key pairs
NumServerKeys == 2
\* distinct installation tokens and distinct session tokens the server hands out
NumTokens == 1
\* distinct device ids / user ids the server hands out
NumIds == 2
\* 429 answers before the final answer of a verified send, in Spec
MaxRetry == 1
\* 429 answers before the final answer of a verified send, in SpecSend
MaxRateLimited == 3
\* elements of the Response array of a body, in SpecCodec
MaxLen == 2

(* Program constants.                                                      *)
RateLimitStatus == 429

----------------------------------------------------------------------------
(* Values.  Option<T> is a sequence of length 0 or 1.                      *)

None == <<>>
Some(x) == <<x>>
IsSome(o) == Len(o) = 1
Unwrap(o) == o[1]

\* a leaf value: t is its kind, n tells values of a kind apart
V(t, n) == [t |-> t, n |-> n]

PrivateKeys == {V("private_key", i) : i \in 1..NumClientKeys}
ServerPublicKeys == {V("public_key", 100 + i) : i \in 1..NumServerKeys}
InstallationTokens == {V("installation_token", i) : i \in 1..NumTokens}
SessionTokens == {V("session_token", i) : i \in 1..NumTokens}
Ids == {V("u32", i) : i \in 1..NumIds}
ApiKeys == {V("api_key", 1)}
Descriptions == {V("description", 1)}
\* a JSON value of the wrong type, and a string that is no PEM
BadValue == V("bad", 0)
GarbageText == V("text", 0)

----------------------------------------------------------------------------
(* Key material (openssl).                                                 *)

\* the public half of a private key (PKey<Private> -> its public key)
PublicOf(private_key) == V("public_key", private_key.n)
\* the private half of a server public key, held by the server only
ServerPrivateOf(public_key) == V("private_key", public_key.n)

\* PKey::public_key_to_pem: Ok(pem text)
public_key_to_pem(key) == V("pem_public", key.n)

\* PKey::private_key_to_pem_pkcs8: Ok(pem text)
private_key_to_pem_pkcs8(key) == V("pem_private", key.n)

\* Rsa::private_key_from_pem followed by PKey::from_rsa: Some(key), or None on malformed PEM
private_key_from_pem(text) ==
    IF text.t = "pem_private" THEN Some(V("private_key", text.n)) ELSE None

\* Rsa::public_key_from_pem followed by PKey::from_rsa: Some(key), or None on malformed PEM
public_key_from_pem(text) ==
    IF text.t = "pem_public" THEN Some(V("public_key", text.n)) ELSE None

\* general_purpose::STANDARD.encode / decode
Base64Encode(bytes) == [encoding |-> "base64", of |-> bytes]
NotBase64 == [encoding |-> "none", of |-> [key |-> BadValue, over |-> None]]
Base64Decode(text) == IF text.encoding = "base64" THEN Some(text.of) ELSE None

\* Signer(sha256, key).update(body).sign_to_vec()
Sign(private_key, bytes) == [key |-> private_key, over |-> Some(bytes)]
\* Verifier(sha256, public_key).update(body).verify(signature)
Verify(public_key, bytes, signature) ==
    /\ signature.key.t = "private_key"
    /\ PublicOf(signature.key) = public_key
    /\ signature.over = Some(bytes)

----------------------------------------------------------------------------
(* The JSON envelope (deserialization.rs).  A body is the bytes of an HTTP *)
(* response: malformed, or a JSON object with optional Error, Response and *)
(* Pagination keys.  An element of the Response array is an object with    *)
(* one key.                                                                *)

Element(key, val) == [key |-> key, val |-> val]
Body(error, resp, pagination) ==
    [valid |-> TRUE, Error |-> error, Response |-> resp, Pagination |-> pagination]
Malformed == [valid |-> FALSE, Error |-> None, Response |-> None, Pagination |-> None]

\* what a deserializer does: Ok(value), an error value, or a panic
ParseOk(value) == [kind |-> "Ok", value |-> value]
ParseErr(why) == [kind |-> "ParseErr", value |-> [why |-> why]]
ParsePanic(why) == [kind |-> "Panic", value |-> [why |-> why]]
ApiErr(errors) == [kind |-> "ApiErr", value |-> [errors |-> errors]]

\* serde_json::Value::get(key) on an element of the Response array
Get(element, key) == IF element.key = key THEN Some(element.val) ELSE None

IsU32(v) == v.t = "u32"
\* InstallationToken / SessionToken: an object whose token field is a string
IsToken(v) == v.t \in {"installation_token", "session_token"}
IsString(v) == v.t \in {"pem_public", "text"}
IsErrorDescription(v) == v.t = "error_description"

\* impl Deserialize for Installation
DeserializeInstallation(root) ==
    LET r == root.Response
        elems == Unwrap(r)
    IN  IF ~IsSome(r) THEN ParsePanic("No 'Response' field in Installation")
        ELSE IF Len(elems) < 1 THEN ParsePanic("Not enough elements in Installation response")
        ELSE IF ~IsSome(Get(elems[1], "Id")) THEN ParsePanic("No 'Id' in Installation response")
        ELSE IF ~IsU32(elems[1].val) THEN ParseErr("Failed to parse Installation")
        ELSE IF Len(elems) < 2 THEN ParsePanic("Not enough elements in installation response 2")
        ELSE IF ~IsSome(Get(elems[2], "Token")) THEN ParsePanic("No 'Token' object in Installation response")
        ELSE IF ~IsToken(elems[2].val) THEN ParseErr("Failed to parse Installation")
        ELSE IF Len(elems) < 3 THEN ParsePanic("Not enough elements in installation response 3")
        ELSE IF ~IsSome(Get(elems[3], "ServerPublicKey")) THEN ParsePanic("No 'ServerPublicKey' in Response elements of Installation")
        ELSE IF ~IsString(elems[3].val) THEN ParsePanic("Failed to parse this to string")
        ELSE ParseOk([id |-> elems[1].val,
                      token |-> [token |-> elems[2].val],
                      bunq_public_key |-> elems[3].val])

\* impl Deserialize for DeviceServerSmall, on one element of the Response array
DeserializeDeviceServerSmall(element) ==
    IF ~IsSome(Get(element, "Id")) THEN ParseErr("No 'Id' available in DeviceServerSmall")
    ELSE IF ~IsU32(element.val) THEN ParseErr("Invalid type of 'id' in DeviceServerSmall")
    ELSE ParseOk([id |-> element.val])

\* #[derive(Deserialize)] for User { UserPerson }, on one element of the Response array
DeserializeUser(element) ==
    IF ~IsSome(Get(element, "UserPerson")) THEN ParseErr("missing field UserPerson")
    ELSE IF ~IsU32(element.val) THEN ParseErr("invalid UserPerson")
    ELSE ParseOk([user_person |-> [id |-> element.val]])

\* #[derive(Deserialize)] for MonetaryAccountBankWrapper { MonetaryAccountBank }
DeserializeMonetaryAccountBankWrapper(element) ==
    IF ~IsSome(Get(element, "MonetaryAccountBank")) THEN ParseErr("missing field MonetaryAccountBank")
    ELSE IF ~IsU32(element.val) THEN ParseErr("invalid MonetaryAccountBank")
    ELSE ParseOk([monetary_account_bank |-> [id |-> element.val]])

\* #[derive(Deserialize)] for BunqMeTabWrapper(pub BunqMeTab): a newtype, read
\* as the BunqMeTab object itself
DeserializeBunqMeTabWrapper(element) ==
    IF ~IsSome(Get(element, "id")) THEN ParseErr("missing field id")
    ELSE IF ~IsU32(element.val) THEN ParseErr("invalid id")
    ELSE ParseOk([id |-> element.val])

\* CreateBunqMeTabResponseWrapper { Id }: the id the server gives a payment request
DeserializeCreateBunqMeTabResponseWrapper(element) ==
    IF ~IsSome(Get(element, "Id")) THEN ParseErr("missing field Id")
    ELSE IF ~IsU32(element.val) THEN ParseErr("invalid Id")
    ELSE ParseOk([id |-> element.val])

DeserializeElement(T, element) ==
    IF T = "DeviceServerSmall" THEN DeserializeDeviceServerSmall(element)
    ELSE IF T = "User" THEN DeserializeUser(element)
    ELSE IF T = "BunqMeTabWrapper" THEN DeserializeBunqMeTabWrapper(element)
    ELSE IF T = "CreateBunqMeTabResponseWrapper"
        THEN DeserializeCreateBunqMeTabResponseWrapper(element)
    ELSE DeserializeMonetaryAccountBankWrapper(element)

\* #[derive(Deserialize)] for Pagination: an object of optional cursor urls
IsPagination(v) == v.t = "pagination"

\* impl Deserialize for Multiple<T>
DeserializeMultiple(T, root) ==
    IF ~IsSome(root.Pagination) THEN ParsePanic("Failed here")
    ELSE IF ~IsPagination(Unwrap(root.Pagination)) THEN ParseErr("Failed")
    ELSE IF ~IsSome(root.Response) THEN ParseErr("Failed")
    ELSE IF \E i \in 1..Len(Unwrap(root.Response)) :
                DeserializeElement(T, Unwrap(root.Response)[i]).kind # "Ok"
        THEN ParseErr("Error")
    ELSE ParseOk([data |-> [i \in 1..Len(Unwrap(root.Response)) |->
                               DeserializeElement(T, Unwrap(root.Response)[i]).value],
                  pagination |-> Unwrap(root.Pagination)])

\* impl Deserialize for Single<T>
DeserializeSingle(T, root) ==
    LET r == root.Response
        elems == Unwrap(r)
    IN  IF ~IsSome(r) THEN ParsePanic("No 'Response' field available")
        ELSE IF \E i \in 1..Len(elems) : DeserializeElement(T, elems[i]).kind # "Ok"
            THEN ParseErr("Some error happened. Look above")
        ELSE IF Len(elems) > 1 THEN ParseErr("Received more than a single!")
        ELSE IF Len(elems) = 0 THEN ParsePanic("No single data was available")
        ELSE DeserializeElement(T, elems[1])

\* impl Deserialize for Session
DeserializeSession(root) ==
    LET r == root.Response
        elems == Unwrap(r)
    IN  IF ~IsSome(r) THEN ParseErr("No 'Response' in Session response")
        ELSE IF Len(elems) < 1 THEN ParseErr("Not enough elements in Session for Id")
        ELSE IF ~IsSome(Get(elems[1], "Id")) THEN ParseErr("First element in Session did not have 'Id'")
        ELSE IF ~IsU32(elems[1].val) THEN ParseErr("'id' in Id in Session was invalid type")
        ELSE IF Len(elems) < 2 THEN ParseErr("Not enough elements for 'Token' in Session")
        ELSE IF ~IsSome(Get(elems[2], "Token")) THEN ParseErr("'Token' was not second element in Session response")
        ELSE IF ~IsToken(elems[2].val) THEN ParseErr("Failed to parse Token in Session")
        ELSE IF Len(elems) < 3 THEN ParseErr("Not enough elements in Session for UserPerson")
        ELSE IF ~IsSome(Get(elems[3], "UserPerson")) THEN ParseErr("Third element in Session did not have 'UserPerson'")
        ELSE IF ~IsU32(elems[3].val) THEN ParseErr("Failed to parse UserPerson in Session")
        ELSE ParseOk([id |-> elems[1].val,
                      token |-> [token |-> elems[2].val],
                      user_person |-> [id |-> elems[3].val]])

\* T::deserialize for the payload types the credential state machine and the
\* client ask for
DeserializePayload(T, root) ==
    IF T = "Installation" THEN DeserializeInstallation(root)
    ELSE IF T = "Session" THEN DeserializeSession(root)
    ELSE IF T = "Single<DeviceServerSmall>" THEN DeserializeSingle("DeviceServerSmall", root)
    ELSE IF T = "Single<User>" THEN DeserializeSingle("User", root)
    ELSE IF T = "Multiple<MonetaryAccountBankWrapper>"
        THEN DeserializeMultiple("MonetaryAccountBankWrapper", root)
    ELSE IF T = "Single<BunqMeTabWrapper>" THEN DeserializeSingle("BunqMeTabWrapper", root)
    ELSE IF T = "Single<CreateBunqMeTabResponseWrapper>"
        THEN DeserializeSingle("CreateBunqMeTabResponseWrapper", root)
    ELSE DeserializeSingle("MonetaryAccountBankWrapper", root)

\* a faulty variant of DeserializeApiResponseBody: a body with a Response key
\* is decoded as the payload, whether or not it has an Error key
DeserializeApiResponseBody_response(T, bytes) ==
    IF ~bytes.valid THEN ParseErr("malformed JSON")
    ELSE IF IsSome(bytes.Response) THEN DeserializePayload(T, bytes)
    ELSE IF IsSome(bytes.Error)
        THEN IF \A i \in 1..Len(Unwrap(bytes.Error)) : IsErrorDescription(Unwrap(bytes.Error)[i])
             THEN ApiErr(Unwrap(bytes.Error))
             ELSE ParseErr("Errors")
    ELSE DeserializePayload(T, bytes)
\* serde_json::from_slice::<ApiResponseBody<T>>: impl Deserialize for ApiResponseBody<T>
DeserializeApiResponseBody(T, bytes) ==
    IF ~bytes.valid THEN ParseErr("malformed JSON")
    ELSE IF IsSome(bytes.Error)
        THEN IF \A i \in 1..Len(Unwrap(bytes.Error)) : IsErrorDescription(Unwrap(bytes.Error)[i])
             THEN ApiErr(Unwrap(bytes.Error))
             ELSE ParseErr("Errors")
    ELSE DeserializePayload(T, bytes)

\* ApiResponseBody::into_result
into_result(body) ==
    IF body.kind = "Ok" THEN [ok |-> TRUE, value |-> body.value]
    ELSE [ok |-> FALSE, value |-> body.value]

----------------------------------------------------------------------------
(* The signed messenger (messenger.rs).                                    *)

\* a fixed segment of an endpoint path; an endpoint is a sequence of segments and ids
Seg(name) == V(name, 0)

BaseUrl == V("text", 1)
AppName == V("text", 2)

\* Messenger::<NotVerified>::new
Messenger_new(base_url, app_name, private_sign_key) ==
    [base_url |-> base_url,
     app_name |-> app_name,
     private_sign_key |-> private_sign_key,
     verification_data |-> None,
     authentication_token |-> None]

\* Messenger::<NotVerified>::make_verified
make_verified(m, bunq_public_key) ==
    [base_url |-> m.base_url,
     app_name |-> m.app_name,
     private_sign_key |-> m.private_sign_key,
     verification_data |-> Some(bunq_public_key),
     authentication_token |-> m.authentication_token]

\* Messenger::set_authentication_token
set_authentication_token(m, token) == [m EXCEPT !.authentication_token = Some(token)]

\* Messenger::sign_body
sign_body(m, body) == Base64Encode(Sign(m.private_sign_key, body))

\* Messenger::send_request: the request that is built and executed
send_request_always_signed(m, method, endpoint, body) ==
    [method |-> method,
     url |-> <<m.base_url, endpoint>>,
     user_agent |-> m.app_name,
     cache_control |-> "no-cache",
     client_signature |-> Some(sign_body(m, IF IsSome(body) THEN Unwrap(body) ELSE body)),
     body |-> body,
     client_authentication |-> m.authentication_token]

send_request(m, method, endpoint, body) ==
    [method |-> method,
     url |-> <<m.base_url, endpoint>>,
     user_agent |-> m.app_name,
     cache_control |-> "no-cache",
     client_signature |-> IF IsSome(body) THEN Some(sign_body(m, Unwrap(body))) ELSE None,
     body |-> body,
     client_authentication |-> m.authentication_token]

\* What the network gives back for one request: delivered = FALSE is a transport
\* failure of execute(); readable = FALSE is a failure while reading the body.
HttpResponse(delivered, status, server_signature, readable, body) ==
    [delivered |-> delivered, status |-> status, server_signature |-> server_signature,
     readable |-> readable, body |-> body]

\* a faulty variant of verify_body_signature: every signature that decodes is accepted
verify_body_signature_any(m, signature, body) ==
    IF ~IsSome(Base64Decode(signature)) THEN "panic" ELSE "valid"
\* Messenger::<Verified>::verify_body_signature: "valid", "invalid", or "panic"
\* when the header is not base64
verify_body_signature(m, signature, body) ==
    LET decoded_signature == Base64Decode(signature)
    IN  IF ~IsSome(decoded_signature) THEN "panic"
        ELSE IF Verify(Unwrap(m.verification_data), body, Unwrap(decoded_signature)) THEN "valid"
        ELSE "invalid"

\* what send / send_unverified give the caller: a Response {body, code}, or a panic;
\* verified and parsed record what was done with the body on the way
SendPanic(why, requests, verified, was_parsed) ==
    [kind |-> "Panic", why |-> why, body |-> ParsePanic(why), code |-> 0,
     requests |-> requests, verified |-> verified, parsed |-> was_parsed]
SendResponse(body, code, requests, verified) ==
    [kind |-> "Response", why |-> "", body |-> body, code |-> code,
     requests |-> requests, verified |-> verified, parsed |-> TRUE]

\* the tail of send and of send_unverified: parse the body, dump and panic on a
\* parse error, else return the Response
Returned(api_response, code, requests, verified) ==
    IF api_response.kind = "ParseErr" THEN SendPanic("Failed", requests, verified, TRUE)
    ELSE IF api_response.kind = "Panic" THEN SendPanic(api_response.value.why, requests, verified, TRUE)
    ELSE SendResponse(api_response, code, requests, verified)

ParseAndReturn(T, resp, requests, verified) ==
    Returned(DeserializeApiResponseBody(T, resp.body), resp.status, requests, verified)

\* Messenger::send_unverified
Unverified(T, resp, requests) ==
    IF ~resp.delivered THEN SendPanic("Failed to send API request", requests, FALSE, FALSE)
    ELSE IF ~resp.readable
        THEN SendPanic("Failed to retrieve body from API response", requests, FALSE, FALSE)
    ELSE ParseAndReturn(T, resp, requests, FALSE)

\* a faulty variant of send_unverified: an answer without a signature header
\* is refused, as send refuses it
send_unverified_wants_signature(m, T, method, endpoint, body, resp) ==
    IF resp.delivered /\ ~IsSome(resp.server_signature)
        THEN SendPanic("No Server signature available. Cannot validate response",
                       <<send_request(m, method, endpoint, body)>>, FALSE, FALSE)
    ELSE Unverified(T, resp, <<send_request(m, method, endpoint, body)>>)

send_unverified(m, T, method, endpoint, body, resp) ==
    Unverified(T, resp, <<send_request(m, method, endpoint, body)>>)

\* Messenger::<Verified>::send after the retry loop: header, body, verification, parse
Verified(is_valid, T, resp, requests) ==
    IF is_valid = "panic"
        THEN SendPanic("Failed to decode Bunq's signature", requests, FALSE, FALSE)
    ELSE IF is_valid = "invalid"
        THEN SendPanic("Received invalid signature of response from Bunq", requests, FALSE, FALSE)
    ELSE ParseAndReturn(T, resp, requests, TRUE)

AfterLoop(m, T, resp, requests) ==
    IF ~IsSome(resp.server_signature)
        THEN SendPanic("No Server signature available. Cannot validate response", requests, FALSE, FALSE)
    ELSE IF ~resp.readable
        THEN SendPanic("Failed to retrieve body from API response", requests, FALSE, FALSE)
    ELSE Verified(verify_body_signature(m, Unwrap(resp.server_signature), resp.body),
                  T, resp, requests)

\* a call of send that has not ended
Pending(requests) ==
    [kind |-> "Pending", why |-> "", body |-> ParsePanic(""), code |-> 0,
     requests |-> requests, verified |-> FALSE, parsed |-> FALSE]

\* Messenger::<Verified>::send, given the answers of the network in order; the
\* call is still in its loop ("Pending") when every answer given was a 429
RECURSIVE SendLoop(_, _, _, _, _, _, _)
SendLoop(m, T, method, endpoint, body, answers, requests) ==
    IF answers = <<>> THEN Pending(requests)
    ELSE IF ~Head(answers).delivered
        THEN SendPanic("Failed to send API request",
                       Append(requests, send_request(m, method, endpoint, body)), FALSE, FALSE)
    ELSE IF Head(answers).status = RateLimitStatus
        THEN IF ~Head(answers).readable
                 THEN SendPanic("Failed to get response of body",
                                Append(requests, send_request(m, method, endpoint, body)), FALSE, FALSE)
                 ELSE SendLoop(m, T, method, endpoint, body, Tail(answers),
                               Append(requests, send_request(m, method, endpoint, body)))
    ELSE AfterLoop(m, T, Head(answers), Append(requests, send_request(m, method, endpoint, body)))

send(m, T, method, endpoint, body, answers) ==
    SendLoop(m, T, method, endpoint, body, answers, <<>>)

----------------------------------------------------------------------------
(* The credential state machine (client_builder.rs).                       *)

\* struct Uninitialized, Initialized, Installed, Registered, UncheckedSession
\* and SessionContext (client.rs)
UninitializedContext == [uninitialized |-> TRUE]
NoContext == [aborted |-> TRUE]

\* impl From<SessionContext> for UncheckedSession
UncheckedSessionFromSessionContext(c) ==
    [session_token |-> c.session_token,
     registered_device_id |-> c.registered_device_id,
     bunq_api_key |-> c.bunq_api_key,
     installation_token |-> c.installation_token,
     bunq_public_key |-> c.bunq_public_key,
     private_key |-> c.private_key]

\* a faulty variant of RegisteredFromUncheckedSession: the session token is kept
\* in the place of the installation token
RegisteredFromUncheckedSession_token(c) ==
    [installation_token |-> c.session_token,
     registered_device_id |-> c.registered_device_id,
     bunq_api_key |-> c.bunq_api_key,
     bunq_public_key |-> c.bunq_public_key,
     private_key |-> c.private_key]
\* impl From<UncheckedSession> for Registered
RegisteredFromUncheckedSession(c) ==
    [installation_token |-> c.installation_token,
     registered_device_id |-> c.registered_device_id,
     bunq_api_key |-> c.bunq_api_key,
     bunq_public_key |-> c.bunq_public_key,
     private_key |-> c.private_key]

\* a faulty variant of InstalledFromRegistered: the public key kept is the
\* client's own
InstalledFromRegistered_own(c) ==
    [installation_token |-> c.installation_token,
     bunq_public_key |-> PublicOf(c.private_key),
     private_key |-> c.private_key]
\* impl From<Registered> for Installed
InstalledFromRegistered(c) ==
    [installation_token |-> c.installation_token,
     bunq_public_key |-> c.bunq_public_key,
     private_key |-> c.private_key]

\* impl From<Installed> for Initialized
InitializedFromInstalled(c) == [private_key |-> c.private_key]

\* serde_json::to_string of a request body
ToJson(name, fields) == [json |-> name, fields |-> fields]

\* What a stage transition gives its caller: Ok(ClientBuilder {context}) of the
\* next stage, Err(BuildError {reason, context}), or a panic.
Ok(next_stage, c, requests) ==
    [kind |-> "Ok", reason |-> "", stage |-> next_stage, context |-> c, requests |-> requests]
BuildError(reason, called_on, c, requests) ==
    [kind |-> "BuildError", reason |-> reason, stage |-> called_on, context |-> c, requests |-> requests]
Panic(why, requests) ==
    [kind |-> "Panic", reason |-> why, stage |-> "Aborted", context |-> NoContext, requests |-> requests]

\* a faulty variant of with_private_key: the credential is taken two stages forward
with_private_key_skips(c, private_key) ==
    Ok("Installed", [private_key |-> private_key], <<>>)
\* ClientBuilder<Uninitialized>::with_private_key
with_private_key(c, private_key) ==
    Ok("Initialized", [private_key |-> private_key], <<>>)

\* ClientBuilder<Uninitialized>::create_private_key; generated is what
\* Rsa::generate and PKey::from_rsa give: Some(key) or None
create_private_key(c, generated) ==
    IF ~IsSome(generated) THEN BuildError("KeyCreationError", "Uninitialized", c, <<>>)
    ELSE with_private_key(c, Unwrap(generated))

\* install_device: the installation that the response decodes to, and the parse
\* of Bunq's public key
Installed(c, result, bunq_public_key, requests) ==
    IF ~IsSome(bunq_public_key)
        THEN BuildError("KeyDeserializationError", "Initialized", c, requests)
    ELSE Ok("Installed",
            [installation_token |-> result.token.token,
             bunq_public_key |-> Unwrap(bunq_public_key),
             private_key |-> c.private_key],
            requests)

\* install_device: what is made of the answer of send_unverified
InstallDeviceResponse(c, r) ==
    IF r.kind = "Panic" THEN Panic(r.why, r.requests)
    ELSE IF r.kind = "Err" THEN BuildError("BunqResponseError", "Initialized", c, r.requests)
    ELSE IF ~into_result(r.body).ok THEN BuildError("BunqResponseError", "Initialized", c, r.requests)
    ELSE Installed(c, r.body.value, public_key_from_pem(r.body.value.bunq_public_key), r.requests)

install_device_sends_private_key(c, pem_ok, resp) ==
    IF ~pem_ok THEN BuildError("KeySerialization", "Initialized", c, <<>>)
    ELSE InstallDeviceResponse(c,
            send_unverified(Messenger_new(BaseUrl, AppName, c.private_key),
                            "Installation", "POST", <<Seg("installation")>>,
                            Some(ToJson("CreateInstallation",
                                        [client_public_key |-> private_key_to_pem_pkcs8(c.private_key)])),
                            resp))

\* ClientBuilder<Initialized>::install_device; pem_ok is whether
\* public_key_to_pem succeeds, resp the answer of the network
install_device(c, pem_ok, resp) ==
    IF ~pem_ok THEN BuildError("KeySerialization", "Initialized", c, <<>>)
    ELSE InstallDeviceResponse(c,
            send_unverified(Messenger_new(BaseUrl, AppName, c.private_key),
                            "Installation", "POST", <<Seg("installation")>>,
                            Some(ToJson("CreateInstallation",
                                        [client_public_key |-> public_key_to_pem(PublicOf(c.private_key))])),
                            resp))

\* the messenger register_device and create_session build
InstallationMessenger(c) ==
    set_authentication_token(
        make_verified(Messenger_new(BaseUrl, AppName, c.private_key), c.bunq_public_key),
        c.installation_token)

\* a faulty variant of SessionMessenger: the bearer stays the installation token
SessionMessenger_installation(c) ==
    set_authentication_token(
        make_verified(Messenger_new(BaseUrl, AppName, c.private_key), c.bunq_public_key),
        c.installation_token)
\* the messenger check_session and build build
SessionMessenger(c) ==
    set_authentication_token(
        make_verified(Messenger_new(BaseUrl, AppName, c.private_key), c.bunq_public_key),
        c.session_token)

\* register_device: what is made of the answer of send
RegisterDeviceResponse_own_key(c, bunq_api_key, r) ==
    IF r.kind = "Panic" THEN Panic(r.why, r.requests)
    ELSE IF r.kind = "Err" THEN BuildError("BunqResponseError", "Installed", c, r.requests)
    ELSE IF ~into_result(r.body).ok THEN Panic("Failed", r.requests)
    ELSE Ok("Registered",
            [registered_device_id |-> into_result(r.body).value.id,
             bunq_api_key |-> bunq_api_key,
             installation_token |-> c.installation_token,
             bunq_public_key |-> PublicOf(c.private_key),
             private_key |-> c.private_key],
            r.requests)

RegisterDeviceResponse(c, bunq_api_key, r) ==
    IF r.kind = "Panic" THEN Panic(r.why, r.requests)
    ELSE IF r.kind = "Err" THEN BuildError("BunqResponseError", "Installed", c, r.requests)
    ELSE IF ~into_result(r.body).ok THEN Panic("Failed", r.requests)
    ELSE Ok("Registered",
            [registered_device_id |-> into_result(r.body).value.id,
             bunq_api_key |-> bunq_api_key,
             installation_token |-> c.installation_token,
             bunq_public_key |-> c.bunq_public_key,
             private_key |-> c.private_key],
            r.requests)

\* ClientBuilder<Installed>::register_device
register_device(c, bunq_api_key, device_description, answers) ==
    RegisterDeviceResponse(c, bunq_api_key,
        send(InstallationMessenger(c), "Single<DeviceServerSmall>", "POST", <<Seg("device-server")>>,
             Some(ToJson("CreateDeviceServer",
                         [secret |-> bunq_api_key, description |-> device_description,
                          permitted_ips |-> <<>>])),
             answers))

\* a faulty variant of CreateSessionResponse: the owner is the id of the session
CreateSessionResponse_id(c, r) ==
    IF r.kind = "Panic" THEN Panic(r.why, r.requests)
    ELSE IF r.kind = "Err" THEN BuildError("BunqResponseError", "Registered", c, r.requests)
    ELSE IF ~into_result(r.body).ok THEN BuildError("BunqResponseError", "Registered", c, r.requests)
    ELSE Ok("Session",
            [owner_id |-> into_result(r.body).value.id,
             session_token |-> into_result(r.body).value.token.token,
             registered_device_id |-> c.registered_device_id,
             bunq_api_key |-> c.bunq_api_key,
             installation_token |-> c.installation_token,
             bunq_public_key |-> c.bunq_public_key,
             private_key |-> c.private_key],
            r.requests)
\* create_session: what is made of the answer of send
CreateSessionResponse(c, r) ==
    IF r.kind = "Panic" THEN Panic(r.why, r.requests)
    ELSE IF r.kind = "Err" THEN BuildError("BunqResponseError", "Registered", c, r.requests)
    ELSE IF ~into_result(r.body).ok THEN BuildError("BunqResponseError", "Registered", c, r.requests)
    ELSE Ok("Session",
            [owner_id |-> into_result(r.body).value.user_person.id,
             session_token |-> into_result(r.body).value.token.token,
             registered_device_id |-> c.registered_device_id,
             bunq_api_key |-> c.bunq_api_key,
             installation_token |-> c.installation_token,
             bunq_public_key |-> c.bunq_public_key,
             private_key |-> c.private_key],
            r.requests)

\* ClientBuilder<Registered>::create_session
create_session(c, answers) ==
    CreateSessionResponse(c,
        send(InstallationMessenger(c), "Session", "POST", <<Seg("session-server")>>,
             Some(ToJson("CreateSession", [secret |-> c.bunq_api_key])), answers))

\* check_session: what is made of the answer of send
CheckSessionResponse_device(c, r) ==
    IF r.kind = "Panic" THEN Panic(r.why, r.requests)
    ELSE IF r.kind = "Err" THEN Panic("Failed to send request to Bunq", r.requests)
    ELSE IF ~into_result(r.body).ok THEN Panic("not yet implemented", r.requests)
    ELSE Ok("Session",
            [owner_id |-> c.registered_device_id,
             session_token |-> c.session_token,
             registered_device_id |-> c.registered_device_id,
             bunq_api_key |-> c.bunq_api_key,
             installation_token |-> c.installation_token,
             bunq_public_key |-> c.bunq_public_key,
             private_key |-> c.private_key],
            r.requests)

CheckSessionResponse(c, r) ==
    IF r.kind = "Panic" THEN Panic(r.why, r.requests)
    ELSE IF r.kind = "Err" THEN Panic("Failed to send request to Bunq", r.requests)
    ELSE IF ~into_result(r.body).ok THEN Panic("not yet implemented", r.requests)
    ELSE Ok("Session",
            [owner_id |-> into_result(r.body).value.user_person.id,
             session_token |-> c.session_token,
             registered_device_id |-> c.registered_device_id,
             bunq_api_key |-> c.bunq_api_key,
             installation_token |-> c.installation_token,
             bunq_public_key |-> c.bunq_public_key,
             private_key |-> c.private_key],
            r.requests)

\* ClientBuilder<UncheckedSession>::check_session
check_session(c, answers) ==
    CheckSessionResponse(c, send(SessionMessenger(c), "Single<User>", "GET", <<Seg("user")>>, None, answers))

\* a faulty variant of build: the messenger verifies against the client's own key
build_own_key(c) ==
    [messenger |-> set_authentication_token(
                       make_verified(Messenger_new(BaseUrl, AppName, c.private_key),
                                     PublicOf(c.private_key)),
                       c.session_token),
     context |-> c]
\* ClientBuilder<SessionContext>::build
build(c) == [messenger |-> SessionMessenger(c), context |-> c]

----------------------------------------------------------------------------
(* The session client (client.rs).                                         *)

\* What ensure_session gives its caller: Ok(Client), Err(Registered), or a
\* panic; calls lists the stage transitions it ran, in order.
EnsureResult(ret, calls, requests) ==
    [kind |-> ret.kind, reason |-> ret.reason, stage |-> ret.stage,
     context |-> ret.context, requests |-> requests, calls |-> calls]

\* Client::ensure_session, the Err arm of its match: create_session on the
\* degraded credential
EnsureCreated(checked, created) ==
    IF created.kind = "Ok"
        THEN EnsureResult(Ok("Client", created.context, <<>>),
                          <<"check_session", "create_session">>,
                          checked.requests \o created.requests)
    ELSE IF created.kind = "BuildError"
        THEN EnsureResult([created EXCEPT !.kind = "Err"],
                          <<"check_session", "create_session">>,
                          checked.requests \o created.requests)
    ELSE EnsureResult(created, <<"check_session", "create_session">>,
                      checked.requests \o created.requests)

\* a faulty variant of EnsureChecked: a session found valid is followed by a
\* registration of the device
EnsureChecked_registers(checked, answers2) ==
    IF checked.kind = "Ok"
        THEN EnsureResult(Ok("Client", checked.context, <<>>),
                          <<"check_session", "register_device">>,
                          checked.requests \o
                              register_device(InstalledFromRegistered(checked.context),
                                              checked.context.bunq_api_key, V("description", 1),
                                              answers2).requests)
    ELSE IF checked.kind = "BuildError"
        THEN EnsureCreated(checked,
                           create_session(RegisteredFromUncheckedSession(checked.context), answers2))
    ELSE EnsureResult(checked, <<"check_session">>, checked.requests)
\* Client::ensure_session, the match on what check_session returned
EnsureChecked(checked, answers2) ==
    IF checked.kind = "Ok"
        THEN EnsureResult(Ok("Client", checked.context, <<>>), <<"check_session">>, checked.requests)
    ELSE IF checked.kind = "BuildError"
        THEN EnsureCreated(checked,
                           create_session(RegisteredFromUncheckedSession(checked.context), answers2))
    ELSE EnsureResult(checked, <<"check_session">>, checked.requests)

\* Client::ensure_session
ensure_session(client, answers1, answers2) ==
    EnsureChecked(check_session(UncheckedSessionFromSessionContext(client.context), answers1),
                  answers2)

\* Client::get_user
get_user(client, answers) ==
    send(client.messenger, "Single<User>", "GET", <<Seg("user")>>, None, answers)

\* Client::get_monetary_account
get_monetary_account(client, bank_account_id, answers) ==
    send(client.messenger, "Single<MonetaryAccountBankWrapper>", "GET",
         <<Seg("user"), client.context.owner_id, Seg("monetary-account-bank"), bank_account_id>>,
         None, answers)

\* Client::get_monetary_accounts
get_monetary_accounts(client, answers) ==
    send(client.messenger, "Multiple<MonetaryAccountBankWrapper>", "GET",
         <<Seg("user"), client.context.owner_id, Seg("monetary-account-bank")>>,
         None, answers)

\* Client::get_payment_request
get_payment_request(client, monetary_account_id, payment_request_id, answers) ==
    send(client.messenger, "Single<BunqMeTabWrapper>", "GET",
         <<Seg("user"), client.context.owner_id, Seg("monetary-account"), monetary_account_id,
           Seg("bunqme-tab"), payment_request_id>>,
         None, answers)

\* Client::create_payment_request
create_payment_request(client, monetary_account_id, amount, description, redirect_url, answers) ==
    send(client.messenger, "Single<CreateBunqMeTabResponseWrapper>", "POST",
         <<Seg("user"), client.context.owner_id, Seg("monetary-account"), monetary_account_id,
           Seg("bunqme-tab")>>,
         Some(ToJson("CreateBunqMeTabWrapper",
                     [amount_inquired |-> [value |-> amount, currency |-> V("text", 3)],
                      description |-> description,
                      redirect_url |-> redirect_url])),
         answers)

\* a faulty variant of close_payment_request: the answer is taken unverified
close_payment_request_unverified(client, monetary_account_id, payment_request_id, answers) ==
    send_unverified(client.messenger, "Single<CreateBunqMeTabResponseWrapper>", "PUT",
         <<Seg("user"), client.context.owner_id, Seg("monetary-account"), monetary_account_id,
           Seg("bunqme-tab"), payment_request_id>>,
         Some(ToJson("AlterBunqMeTabRequest", [status |-> V("status", 1)])),
         Head(answers))
\* Client::close_payment_request
close_payment_request(client, monetary_account_id, payment_request_id, answers) ==
    send(client.messenger, "Single<CreateBunqMeTabResponseWrapper>", "PUT",
         <<Seg("user"), client.context.owner_id, Seg("monetary-account"), monetary_account_id,
           Seg("bunqme-tab"), payment_request_id>>,
         Some(ToJson("AlterBunqMeTabRequest", [status |-> V("status", 1)])),
         answers)

----------------------------------------------------------------------------
(* What the server and the network can answer.                             *)

ErrorList == <<V("error_description", 1)>>
ErrorEnvelope == Body(Some(ErrorList), None, None)
FirstId == V("u32", 1)

InstallationResponse(token, pem) ==
    Body(None, Some(<<Element("Id", FirstId), Element("Token", token),
                      Element("ServerPublicKey", pem)>>), None)
DeviceServerResponse(id) == Body(None, Some(<<Element("Id", id)>>), None)
SessionResponse(token, user_id) ==
    Body(None, Some(<<Element("Id", FirstId), Element("Token", token),
                      Element("UserPerson", user_id)>>), None)
UserResponse(user_id) == Body(None, Some(<<Element("UserPerson", user_id)>>), None)
MonetaryAccountResponse(id) == Body(None, Some(<<Element("MonetaryAccountBank", id)>>), None)

\* bodies no payload type accepts (malformed JSON, an empty Response array),
\* and the Error envelope
FaultyBodies == <<Malformed, ErrorEnvelope, Body(None, Some(<<>>), None)>>

\* the elements of a set, in some order
RECURSIVE SeqOf(_)
SeqOf(S) == IF S = {} THEN <<>> ELSE LET x == CHOOSE x \in S : TRUE IN <<x>> \o SeqOf(S \ {x})

\* what the server can hand out in a well-formed answer to each request
InstallationIssues ==
    SeqOf({[installation_token |-> t, bunq_public_key |-> k] :
               t \in InstallationTokens, k \in ServerPublicKeys})
DeviceServerIssues == SeqOf({[registered_device_id |-> id] : id \in Ids})
SessionIssues == SeqOf({[session_token |-> t, owner_id |-> u] : t \in SessionTokens, u \in Ids})
UserIssues == SeqOf({[owner_id |-> u] : u \in Ids})
MonetaryAccountIssues == <<[bank_account_id |-> FirstId]>>

\* the bodies the server can answer each request with: the well-formed ones,
\* one per issue, then the ill-formed ones
InstallationBodies ==
    [i \in 1..Len(InstallationIssues) |->
        InstallationResponse(InstallationIssues[i].installation_token,
                             public_key_to_pem(InstallationIssues[i].bunq_public_key))]
    \o <<InstallationResponse(V("installation_token", 1), GarbageText),
         Body(None, Some(<<Element("Id", FirstId), Element("Token", V("installation_token", 1))>>), None)>>
    \o FaultyBodies
DeviceServerBodies ==
    [i \in 1..Len(DeviceServerIssues) |-> DeviceServerResponse(DeviceServerIssues[i].registered_device_id)]
    \o <<Body(None, Some(<<Element("Id", FirstId), Element("Id", FirstId)>>), None)>>
    \o FaultyBodies
SessionBodies ==
    [i \in 1..Len(SessionIssues) |->
        SessionResponse(SessionIssues[i].session_token, SessionIssues[i].owner_id)]
    \o <<Body(None, Some(<<Element("Id", FirstId), Element("Token", V("session_token", 1))>>), None)>>
    \o FaultyBodies
UserBodies ==
    [i \in 1..Len(UserIssues) |-> UserResponse(UserIssues[i].owner_id)]
    \o <<Body(None, Some(<<Element("UserPerson", FirstId), Element("UserPerson", FirstId)>>), None)>>
    \o FaultyBodies
MonetaryAccountBodies ==
    [i \in 1..Len(MonetaryAccountIssues) |->
        MonetaryAccountResponse(MonetaryAccountIssues[i].bank_account_id)]
    \o FaultyBodies

\* the bodies that answer the other business calls: a well-formed one, then
\* ill-formed ones and the Error envelope
MonetaryAccountsBodies ==
    <<Body(None, Some(<<Element("MonetaryAccountBank", FirstId)>>), Some(V("pagination", 0))),
      Body(None, Some(<<Element("MonetaryAccountBank", FirstId)>>), None),
      ErrorEnvelope>>
PaymentRequestBodies ==
    <<Body(None, Some(<<Element("id", FirstId)>>), None), ErrorEnvelope>>
PaymentRequestIdBodies ==
    <<Body(None, Some(<<Element("Id", FirstId)>>), None), ErrorEnvelope>>

StatusOf(body) == IF body.valid /\ ~IsSome(body.Error) THEN 200 ELSE 400

\* X-Bunq-Server-Signature: the signature of the body by a server key
SignedBy(k, body) == Some(Base64Encode(Sign(ServerPrivateOf(k), body)))

\* a server key other than k
OtherKey(k) == CHOOSE o \in ServerPublicKeys : o # k
FirstServerKey == CHOOSE k \in ServerPublicKeys : \A o \in ServerPublicKeys : k.n <= o.n

TransportFailure == HttpResponse(FALSE, 0, None, FALSE, Malformed)
RateLimited == HttpResponse(TRUE, RateLimitStatus, None, TRUE, ErrorEnvelope)

\* The answers other than 429 that the network can give to a request whose
\* answer has one of the bodies, as seen by a caller that holds server key k:
\*   <<"signed", i>>   body i, signed by the server key the caller holds
\*   <<"fault", i>>    i = 1 a transport failure, 2 a body that cannot be read,
\*                     and the first body with 3 no signature header, 4 a header
\*                     that is not base64, 5 a signature of other bytes, 6 a
\*                     signature by another server key
FinalChoices(bodies) ==
    ({"signed"} \X (1..Len(bodies))) \cup ({"fault"} \X (1..6))

FaultResponse(body, k, i) ==
    IF i = 1 THEN TransportFailure
    ELSE IF i = 2 THEN HttpResponse(TRUE, 200, SignedBy(k, body), FALSE, body)
    ELSE IF i = 3 THEN HttpResponse(TRUE, 200, None, TRUE, body)
    ELSE IF i = 4 THEN HttpResponse(TRUE, 200, Some(NotBase64), TRUE, body)
    ELSE IF i = 5 THEN HttpResponse(TRUE, 200,
                      Some(Base64Encode([key |-> ServerPrivateOf(k), over |-> None])), TRUE, body)
    ELSE HttpResponse(TRUE, 200, SignedBy(OtherKey(k), body), TRUE, body)

FinalResponse(bodies, k, choice) ==
    IF choice[1] = "signed"
        THEN HttpResponse(TRUE, StatusOf(bodies[choice[2]]), SignedBy(k, bodies[choice[2]]),
                          TRUE, bodies[choice[2]])
        ELSE FaultResponse(bodies[1], k, choice[2])

\* how many answers 429 come before the final answer: any number up to
\* MaxRetry before the first body well signed and before the answer without a
\* signature, none before the others
Retries(choice) ==
    IF choice \in {<<"signed", 1>>, <<"fault", 3>>} THEN 0..MaxRetry ELSE {0}

\* n answers 429, then the final answer
Answers(bodies, k, n, choice) ==
    [i \in 1..n |-> RateLimited] \o <<FinalResponse(bodies, k, choice)>>

\* what the server handed out with the final answer: Some(issue) when the body
\* it sent is a well-formed one, None when no body was delivered or the body is
\* ill-formed
IssueOf(issues, choice) ==
    IF choice[1] = "signed"
        THEN IF choice[2] <= Len(issues) THEN Some(issues[choice[2]]) ELSE None
    ELSE IF choice[2] >= 2 THEN Some(issues[1])
    ELSE None

\* the record of what the server handed out last, updated with an issue
NothingIssued ==
    [installation_token |-> None, bunq_public_key |-> None, registered_device_id |-> None,
     session_token |-> None, owner_id |-> None]
Issue(record, issue) ==
    IF ~IsSome(issue) THEN record
    ELSE [f \in DOMAIN record |->
            IF f \in DOMAIN Unwrap(issue) THEN Some(Unwrap(issue)[f]) ELSE record[f]]

----------------------------------------------------------------------------
(* Spec: the caller drives the credential state machine and the client.    *)

NoReply == ParsePanic("")
NoCall == [messenger |-> Messenger_new(BaseUrl, AppName, V("private_key", 0)),
           T |-> "", method |-> "", endpoint |-> <<>>, body |-> None]
NoResponse == TransportFailure

\* the record kept of an operation: what it was called on, the answers of the
\* network to its requests, what it gave back (ret), the stage transitions it
\* ran (calls) and, for a business call, the parsed body (reply)
Operation(op, answers, ret, calls, reply) ==
    [op |-> op, stage |-> stage, input |-> context, answers |-> answers,
     ret |-> ret, calls |-> calls, reply |-> reply]

\* the caller is left with what the operation returned
Returns(op, answers, ret, issue) ==
    /\ stage' = ret.stage
    /\ context' = ret.context
    /\ last' = Operation(op, answers, ret, <<op>>, NoReply)
    /\ issued' = Issue(issued, issue)
    /\ UNCHANGED messenger

SendIdle ==
    /\ pc = "idle"
    /\ call = NoCall
    /\ sent = <<>>
    /\ received = <<>>
    /\ response = NoResponse
    /\ verdict = "none"
    /\ parsed = FALSE
    /\ outcome = Pending(<<>>)

\* ClientBuilder::new
\* ContextStorage::default(): no field is set
DefaultStorage ==
    [private_key |-> None, installation_token |-> None, bunq_public_key |-> None,
     bunq_api_key |-> None, registered_device_id |-> None, session_token |-> None,
     owner_id |-> None]

\* data_dump.json before any dump: the file does not exist
NoFile == [exists |-> FALSE, by |-> 0, contents |-> None]

\* no second client
NoPeer == [id |-> 0, pc |-> "idle", call |-> NoCall, sent |-> <<>>, received |-> <<>>,
           response |-> NoResponse, verdict |-> "none", parsed |-> FALSE,
           outcome |-> Pending(<<>>)]

\* the client whose call is taking steps: 1, or 2 while client 1 is the peer
Running == IF peer.id = 1 THEN 2 ELSE 1

\* one call, no timeout fired, nothing stored or dumped yet
Alone ==
    /\ cancelled = FALSE
    /\ stored = DefaultStorage
    /\ peer = NoPeer
    /\ dump_file = NoFile

Fresh ==
    /\ stage = "Uninitialized"
    /\ context = UninitializedContext
    /\ messenger = None
    /\ last = [op |-> "new", stage |-> "Uninitialized", input |-> UninitializedContext,
               answers |-> <<>>, ret |-> Ok("Uninitialized", UninitializedContext, <<>>),
               calls |-> <<>>, reply |-> NoReply]
    /\ issued = NothingIssued

Init == Fresh /\ SendIdle /\ Alone

WithPrivateKey ==
    /\ stage = "Uninitialized"
    /\ \E k \in PrivateKeys :
           Returns("with_private_key", <<>>, with_private_key(context, k), None)
    /\ UNCHANGED sendVars
    /\ UNCHANGED hostVars

CreatePrivateKey ==
    /\ stage = "Uninitialized"
    /\ \E generated \in {None} \cup {Some(k) : k \in PrivateKeys} :
           Returns("create_private_key", <<>>, create_private_key(context, generated), None)
    /\ UNCHANGED sendVars
    /\ UNCHANGED hostVars

\* the answer to the installation request: a final answer, under status 200 or 429
InstallationAnswer(choice, status) ==
    [FinalResponse(InstallationBodies, FirstServerKey, choice)
        EXCEPT !.status = IF @ = 0 THEN 0 ELSE status]

InstallDevice ==
    /\ stage = "Initialized"
    /\ \E pem_ok \in BOOLEAN, status \in {200, RateLimitStatus},
          choice \in FinalChoices(InstallationBodies) :
           Returns("install_device",
                   IF pem_ok THEN <<InstallationAnswer(choice, status)>> ELSE <<>>,
                   install_device(context, pem_ok, InstallationAnswer(choice, status)),
                   IF pem_ok THEN IssueOf(InstallationIssues, choice) ELSE None)
    /\ UNCHANGED sendVars
    /\ UNCHANGED hostVars

RegisterDevice ==
    /\ stage = "Installed"
    /\ \E k \in ApiKeys, d \in Descriptions, choice \in FinalChoices(DeviceServerBodies) :
       \E n \in Retries(choice) :
           Returns("register_device",
                   Answers(DeviceServerBodies, context.bunq_public_key, n, choice),
                   register_device(context, k, d,
                       Answers(DeviceServerBodies, context.bunq_public_key, n, choice)),
                   IssueOf(DeviceServerIssues, choice))
    /\ UNCHANGED sendVars
    /\ UNCHANGED hostVars

CreateSession ==
    /\ stage = "Registered"
    /\ \E choice \in FinalChoices(SessionBodies) :
       \E n \in Retries(choice) :
           Returns("create_session",
                   Answers(SessionBodies, context.bunq_public_key, n, choice),
                   create_session(context, Answers(SessionBodies, context.bunq_public_key, n, choice)),
                   IssueOf(SessionIssues, choice))
    /\ UNCHANGED sendVars
    /\ UNCHANGED hostVars

CheckSession ==
    /\ stage = "UncheckedSession"
    /\ \E choice \in FinalChoices(UserBodies) :
       \E n \in Retries(choice) :
           Returns("check_session",
                   Answers(UserBodies, context.bunq_public_key, n, choice),
                   check_session(context, Answers(UserBodies, context.bunq_public_key, n, choice)),
                   IssueOf(UserIssues, choice))
    /\ UNCHANGED sendVars
    /\ UNCHANGED hostVars

\* the From conversions between stages
Convert(from, to, op, c) ==
    /\ stage = from
    /\ Returns(op, <<>>, Ok(to, c, <<>>), None)
    /\ UNCHANGED sendVars
    /\ UNCHANGED hostVars

IntoUncheckedSession ==
    Convert("Session", "UncheckedSession", "into_unchecked_session",
            UncheckedSessionFromSessionContext(context))
IntoRegistered ==
    Convert("UncheckedSession", "Registered", "into_registered",
            RegisteredFromUncheckedSession(context))
IntoInstalled ==
    Convert("Registered", "Installed", "into_installed", InstalledFromRegistered(context))
IntoInitialized ==
    Convert("Installed", "Initialized", "into_initialized", InitializedFromInstalled(context))

Build ==
    /\ stage = "Session"
    /\ LET client == build(context)
       IN  /\ stage' = "Client"
           /\ context' = client.context
           /\ messenger' = Some(client.messenger)
           /\ last' = Operation("build", <<>>, Ok("Client", client.context, <<>>), <<>>, NoReply)
    /\ UNCHANGED <<issued, sendVars>>
    /\ UNCHANGED hostVars

Self == [messenger |-> Unwrap(messenger), context |-> context]

\* the answers to the session-server request of ensure_session: asked for only
\* when its check_session gave a BuildError
CreateChoices(answers1) ==
    IF check_session(UncheckedSessionFromSessionContext(context), answers1).kind = "BuildError"
        THEN FinalChoices(SessionBodies)
        ELSE {<<"fault", 1>>}

\* the caller is left with what ensure_session returned
Ensured(e, answers1, answers2, issue1, issue2) ==
    /\ stage' = e.stage
    /\ context' = e.context
    /\ messenger' = IF e.kind = "Ok" THEN Some(build(e.context).messenger) ELSE None
    /\ last' = Operation("ensure_session",
                         IF Len(e.calls) = 2 THEN answers1 \o answers2 ELSE answers1,
                         [kind |-> e.kind, reason |-> e.reason, stage |-> e.stage,
                          context |-> e.context, requests |-> e.requests],
                         e.calls, NoReply)
    /\ issued' = IF Len(e.calls) = 2 THEN Issue(Issue(issued, issue1), issue2)
                                     ELSE Issue(issued, issue1)

EnsureSession ==
    /\ stage = "Client"
    /\ \E choice1 \in FinalChoices(UserBodies) :
       \E n \in Retries(choice1) :
       \E choice2 \in CreateChoices(Answers(UserBodies, context.bunq_public_key, n, choice1)) :
           Ensured(ensure_session(Self,
                                  Answers(UserBodies, context.bunq_public_key, n, choice1),
                                  Answers(SessionBodies, context.bunq_public_key, 0, choice2)),
                   Answers(UserBodies, context.bunq_public_key, n, choice1),
                   Answers(SessionBodies, context.bunq_public_key, 0, choice2),
                   IssueOf(UserIssues, choice1), IssueOf(SessionIssues, choice2))
    /\ UNCHANGED sendVars
    /\ UNCHANGED hostVars

\* a business call leaves the client as it is, or panics
Business_clears_token(op, answers, r, issue) ==
    /\ stage' = IF r.kind = "Panic" THEN "Aborted" ELSE stage
    /\ context' = IF r.kind = "Panic" THEN NoContext ELSE context
    /\ messenger' = IF r.kind = "Panic" THEN None
                     ELSE Some([Unwrap(messenger) EXCEPT !.authentication_token = None])
    /\ last' = Operation(op, answers,
                         IF r.kind = "Panic" THEN Panic(r.why, r.requests)
                                             ELSE Ok(stage, context, r.requests),
                         <<>>, r.body)
    /\ issued' = Issue(issued, issue)

Business(op, answers, r, issue) ==
    /\ stage' = IF r.kind = "Panic" THEN "Aborted" ELSE stage
    /\ context' = IF r.kind = "Panic" THEN NoContext ELSE context
    /\ messenger' = IF r.kind = "Panic" THEN None ELSE messenger
    /\ last' = Operation(op, answers,
                         IF r.kind = "Panic" THEN Panic(r.why, r.requests)
                                             ELSE Ok(stage, context, r.requests),
                         <<>>, r.body)
    /\ issued' = Issue(issued, issue)

GetUser ==
    /\ stage = "Client"
    /\ \E choice \in FinalChoices(UserBodies) :
       \E n \in Retries(choice) :
           Business("get_user",
                    Answers(UserBodies, context.bunq_public_key, n, choice),
                    get_user(Self, Answers(UserBodies, context.bunq_public_key, n, choice)),
                    IssueOf(UserIssues, choice))
    /\ UNCHANGED sendVars
    /\ UNCHANGED hostVars

GetMonetaryAccount ==
    /\ stage = "Client"
    /\ \E id \in {FirstId}, choice \in FinalChoices(MonetaryAccountBodies) :
       \E n \in Retries(choice) :
           Business("get_monetary_account",
                    Answers(MonetaryAccountBodies, context.bunq_public_key, n, choice),
                    get_monetary_account(Self, id,
                        Answers(MonetaryAccountBodies, context.bunq_public_key, n, choice)),
                    None)
    /\ UNCHANGED sendVars
    /\ UNCHANGED hostVars

GetMonetaryAccounts ==
    /\ stage = "Client"
    /\ \E choice \in FinalChoices(MonetaryAccountsBodies) :
           Business("get_monetary_accounts",
                    Answers(MonetaryAccountsBodies, context.bunq_public_key, 0, choice),
                    get_monetary_accounts(Self,
                        Answers(MonetaryAccountsBodies, context.bunq_public_key, 0, choice)),
                    None)
    /\ UNCHANGED sendVars
    /\ UNCHANGED hostVars

GetPaymentRequest ==
    /\ stage = "Client"
    /\ \E account \in {FirstId}, id \in {FirstId}, choice \in FinalChoices(PaymentRequestBodies) :
           Business("get_payment_request",
                    Answers(PaymentRequestBodies, context.bunq_public_key, 0, choice),
                    get_payment_request(Self, account, id,
                        Answers(PaymentRequestBodies, context.bunq_public_key, 0, choice)),
                    None)
    /\ UNCHANGED sendVars
    /\ UNCHANGED hostVars

CreatePaymentRequest ==
    /\ stage = "Client"
    /\ \E account \in {FirstId}, amount \in {V("decimal", 1)}, description \in Descriptions,
          redirect_url \in {V("text", 4)}, choice \in FinalChoices(PaymentRequestIdBodies) :
           Business("create_payment_request",
                    Answers(PaymentRequestIdBodies, context.bunq_public_key, 0, choice),
                    create_payment_request(Self, account, amount, description, redirect_url,
                        Answers(PaymentRequestIdBodies, context.bunq_public_key, 0, choice)),
                    None)
    /\ UNCHANGED sendVars
    /\ UNCHANGED hostVars

ClosePaymentRequest ==
    /\ stage = "Client"
    /\ \E account \in {FirstId}, id \in {FirstId}, choice \in FinalChoices(PaymentRequestIdBodies) :
           Business("close_payment_request",
                    Answers(PaymentRequestIdBodies, context.bunq_public_key, 0, choice),
                    close_payment_request(Self, account, id,
                        Answers(PaymentRequestIdBodies, context.bunq_public_key, 0, choice)),
                    None)
    /\ UNCHANGED sendVars
    /\ UNCHANGED hostVars

Next ==
    \/ WithPrivateKey
    \/ CreatePrivateKey
    \/ InstallDevice
    \/ RegisterDevice
    \/ CreateSession
    \/ CheckSession
    \/ IntoUncheckedSession
    \/ IntoRegistered
    \/ IntoInstalled
    \/ IntoInitialized
    \/ Build
    \/ EnsureSession
    \/ GetUser
    \/ GetMonetaryAccount
    \/ GetMonetaryAccounts
    \/ GetPaymentRequest
    \/ CreatePaymentRequest
    \/ ClosePaymentRequest

Spec == Init /\ [][Next]_vars

----------------------------------------------------------------------------
(* SpecSend: one call of Messenger<Verified>::send, step by step.  The     *)
(* credential machine stays as constructed.                                *)

\* the bodies the server can answer a request for payload type T with
BodiesFor(T) == IF T = "Session" THEN SessionBodies ELSE UserBodies

\* the calls followed: the GET of check_session / get_user and the POST of
\* create_session, on a verified messenger with a bearer token
SendCalls ==
    {[messenger |-> set_authentication_token(
                        make_verified(Messenger_new(BaseUrl, AppName, p), k), t),
      T |-> "Single<User>", method |-> "GET", endpoint |-> <<Seg("user")>>, body |-> None] :
        p \in PrivateKeys, k \in ServerPublicKeys, t \in SessionTokens}
    \cup
    {[messenger |-> set_authentication_token(
                        make_verified(Messenger_new(BaseUrl, AppName, p), k), t),
      T |-> "Session", method |-> "POST", endpoint |-> <<Seg("session-server")>>,
      body |-> Some(ToJson("CreateSession", [secret |-> a]))] :
        p \in PrivateKeys, k \in ServerPublicKeys, t \in InstallationTokens, a \in ApiKeys}

\* the server key the messenger of the call verifies against
bunq_public_key == Unwrap(call.messenger.verification_data)

\* what the network can answer the next request of the call with: a final
\* answer, or a 429 (whose text can or cannot be read) while fewer than
\* MaxRateLimited of them were given
NextResponses ==
    {FinalResponse(BodiesFor(call.T), bunq_public_key, choice) :
        choice \in FinalChoices(BodiesFor(call.T))}
    \cup (IF Len(received) < MaxRateLimited
              THEN {RateLimited, [RateLimited EXCEPT !.readable = FALSE]}
              ELSE {})

InitSend ==
    /\ Fresh
    /\ Alone
    /\ pc = "request"
    /\ call \in SendCalls
    /\ sent = <<>>
    /\ received = <<>>
    /\ response = NoResponse
    /\ verdict = "none"
    /\ parsed = FALSE
    /\ outcome = Pending(<<>>)

\* the call ends in a panic
Panics(why) ==
    /\ pc' = "done"
    /\ outcome' = SendPanic(why, sent', FALSE, parsed')

\* a faulty variant of SendRequest: only the latest request is counted
SendRequest_drops_body ==
    /\ pc = "request"
    /\ ~cancelled
    /\ \E resp \in NextResponses :
        /\ sent' = Append(sent, send_request(call.messenger, call.method, call.endpoint,
                                             IF sent = <<>> THEN call.body ELSE None))
        /\ received' = Append(received, resp)
        /\ response' = resp
        /\ UNCHANGED <<call, verdict, parsed>>
        /\ IF ~resp.delivered
               THEN Panics("Failed to send API request")
               ELSE pc' = "status" /\ UNCHANGED outcome
    /\ UNCHANGED credVars
    /\ UNCHANGED hostVars

SendRequest_forgets ==
    /\ pc = "request"
    /\ ~cancelled
    /\ \E resp \in NextResponses :
        /\ sent' = <<send_request(call.messenger, call.method, call.endpoint, call.body)>>
        /\ received' = Append(received, resp)
        /\ response' = resp
        /\ UNCHANGED <<call, verdict, parsed>>
        /\ IF ~resp.delivered
               THEN Panics("Failed to send API request")
               ELSE pc' = "status" /\ UNCHANGED outcome
    /\ UNCHANGED credVars
    /\ UNCHANGED hostVars
\* self.send_request(method.clone(), endpoint, body.clone()).await, awaited to
\* its end: the caller has not dropped the call
SendRequest ==
    /\ pc = "request"
    /\ ~cancelled
    /\ \E resp \in NextResponses :
        /\ sent' = Append(sent, send_request(call.messenger, call.method, call.endpoint, call.body))
        /\ received' = Append(received, resp)
        /\ response' = resp
        /\ UNCHANGED <<call, verdict, parsed>>
        /\ IF ~resp.delivered
               THEN Panics("Failed to send API request")
               ELSE pc' = "status" /\ UNCHANGED outcome
    /\ UNCHANGED credVars
    /\ UNCHANGED hostVars

\* if response.status().as_u16() == 429: print the text of the response
RateLimit ==
    /\ pc = "status"
    /\ response.status = RateLimitStatus
    /\ UNCHANGED <<call, sent, received, response, verdict, parsed>>
    /\ IF ~response.readable
           THEN Panics("Failed to get response of body")
           ELSE pc' = "sleep" /\ UNCHANGED outcome
    /\ UNCHANGED credVars
    /\ UNCHANGED hostVars

Resend_gives_up ==
    /\ pc = "sleep"
    /\ UNCHANGED <<call, sent, received, response, verdict, parsed>>
    /\ IF Len(sent) > MaxRetry
           THEN Panics("Rate limited")
           ELSE pc' = "request" /\ UNCHANGED outcome
    /\ UNCHANGED credVars
    /\ UNCHANGED hostVars

\* sleep(Duration::from_secs(3)), then the loop sends again
Resend ==
    /\ pc = "sleep"
    /\ pc' = "request"
    /\ UNCHANGED <<call, sent, received, response, verdict, parsed, outcome>>
    /\ UNCHANGED credVars
    /\ UNCHANGED hostVars

\* else break response
Break ==
    /\ pc = "status"
    /\ response.status # RateLimitStatus
    /\ pc' = "header"
    /\ UNCHANGED <<call, sent, received, response, verdict, parsed, outcome>>
    /\ UNCHANGED credVars
    /\ UNCHANGED hostVars

\* a faulty variant of ReadSignature: a response without the header goes on to the parser
ReadSignature_unsigned ==
    /\ pc = "header"
    /\ UNCHANGED <<call, sent, received, response, verdict, parsed, outcome>>
    /\ pc' = IF ~IsSome(response.server_signature) THEN "parse" ELSE "body"
    /\ UNCHANGED credVars
    /\ UNCHANGED hostVars
\* headers().get("X-Bunq-Server-Signature").expect(..)
ReadSignature ==
    /\ pc = "header"
    /\ UNCHANGED <<call, sent, received, response, verdict, parsed>>
    /\ IF ~IsSome(response.server_signature)
           THEN Panics("No Server signature available. Cannot validate response")
           ELSE pc' = "body" /\ UNCHANGED outcome
    /\ UNCHANGED credVars
    /\ UNCHANGED hostVars

\* unverified_response.bytes().await.expect(..)
ReadBody ==
    /\ pc = "body"
    /\ UNCHANGED <<call, sent, received, response, verdict, parsed>>
    /\ IF ~response.readable
           THEN Panics("Failed to retrieve body from API response")
           ELSE pc' = "verify" /\ UNCHANGED outcome
    /\ UNCHANGED credVars
    /\ UNCHANGED hostVars

\* a faulty variant of VerifySignature: a signature found invalid has the request sent again
VerifySignature_retries ==
    /\ pc = "verify"
    /\ verdict' = verify_body_signature(call.messenger, Unwrap(response.server_signature), response.body)
    /\ UNCHANGED <<call, sent, received, response, parsed, outcome>>
    /\ pc' = IF verdict' = "valid" THEN "parse"
             ELSE IF Len(sent) <= MaxRateLimited THEN "request" ELSE "done"
    /\ UNCHANGED credVars
    /\ UNCHANGED hostVars
\* if !self.verify_body_signature(&body_signature, &response_body) { panic!(..) }
VerifySignature ==
    /\ pc = "verify"
    /\ verdict' = verify_body_signature(call.messenger, Unwrap(response.server_signature), response.body)
    /\ UNCHANGED <<call, sent, received, response, parsed>>
    /\ IF verdict' = "panic" THEN Panics("Failed to decode Bunq's signature")
       ELSE IF verdict' = "invalid" THEN Panics("Received invalid signature of response from Bunq")
       ELSE pc' = "parse" /\ UNCHANGED outcome
    /\ UNCHANGED credVars
    /\ UNCHANGED hostVars

\* serde_json::from_slice(&response_body), then return Response or dump and panic
Parse ==
    /\ pc = "parse"
    /\ parsed' = TRUE
    /\ IF DeserializeApiResponseBody(call.T, response.body).kind = "ParseErr"
           THEN pc' = "dump" /\ UNCHANGED outcome
           ELSE /\ outcome' = ParseAndReturn(call.T, response, sent, verdict = "valid")
                /\ pc' = "done"
    /\ UNCHANGED <<call, sent, received, response, verdict>>
    /\ UNCHANGED credVars
    /\ UNCHANGED hostVars

\* Messenger::dump_json_to_file(contents, "data_dump.json"), called by client `by`
dump_json_to_file(file, by, contents, created, written) ==
    IF ~created THEN file
    ELSE [exists |-> TRUE, by |-> by, contents |-> IF written THEN Some(contents) ELSE None]

\* Err(parse_error) => Self::dump_json_to_file(..).expect(..); panic!("Failed");
\* File::create(path)? truncates the file or fails; file.write_all(contents)?
\* writes the body or fails
Dump ==
    /\ pc = "dump"
    /\ \E created \in BOOLEAN, written \in BOOLEAN :
           /\ dump_file' = dump_json_to_file(dump_file, Running, response.body, created, written)
           /\ outcome' = SendPanic(IF created /\ written THEN "Failed"
                                                         ELSE "Failed to dump JSON to file",
                                   sent, verdict = "valid", TRUE)
    /\ pc' = "done"
    /\ UNCHANGED <<call, sent, received, response, verdict, parsed>>
    /\ UNCHANGED credVars
    /\ UNCHANGED <<cancelled, stored, peer>>

NextSend ==
    \/ SendRequest
    \/ RateLimit
    \/ Resend
    \/ Break
    \/ ReadSignature
    \/ ReadBody
    \/ VerifySignature
    \/ Parse
    \/ Dump

SpecSend == InitSend /\ [][NextSend]_vars

\* The caller wraps the call in a timeout.  The call is a future: once the
\* timeout has fired the caller drops it the next time it is polled and found
\* pending, which can only be at an .await of send.  The 3 s sleep is
\* std::thread::sleep (messenger.rs:1, 222), not an .await.

\* the caller's timeout fires, at any point of the call
Cancel ==
    /\ pc \notin {"done", "dropped"}
    /\ ~cancelled
    /\ cancelled' = TRUE
    /\ UNCHANGED sendVars
    /\ UNCHANGED credVars
    /\ UNCHANGED <<stored, peer, dump_file>>

\* the call is dropped at an await: at send_request(..).await (the request was
\* built and handed to the HTTP client when the future was polled, and has left
\* or not), at response.text().await of a 429, or at bytes().await
Dropped ==
    /\ cancelled
    /\ \/ /\ pc = "request"
          /\ \E left \in BOOLEAN :
                 sent' = IF left THEN Append(sent, send_request(call.messenger, call.method,
                                                                call.endpoint, call.body))
                                 ELSE sent
       \/ /\ pc = "status"
          /\ response.status = RateLimitStatus
          /\ UNCHANGED sent
       \/ /\ pc = "body"
          /\ UNCHANGED sent
    /\ pc' = "dropped"
    /\ UNCHANGED <<call, received, response, verdict, parsed, outcome>>
    /\ UNCHANGED credVars
    /\ UNCHANGED hostVars

NextCancel ==
    \/ SendRequest
    \/ RateLimit
    \/ Resend
    \/ Break
    \/ ReadSignature
    \/ ReadBody
    \/ VerifySignature
    \/ Parse
    \/ Dump
    \/ Cancel
    \/ Dropped

\* one call of send under a caller's timeout
SpecCancel == InitSend /\ [][NextCancel]_vars

\* Two clients, each with its own credential and messenger, each in one call
\* of send from its own task.  The variables of the call hold the call of the
\* client that is taking steps, peer holds the call of the other one.

\* the call of client i: GET user with the messenger made from the i-th key,
\* the first server key and the first session token
ClientCalls(i) ==
    {c \in SendCalls : /\ c.messenger.private_sign_key = V("private_key", i)
                       /\ c.messenger.verification_data = Some(V("public_key", 101))
                       /\ c.messenger.authentication_token = Some(V("session_token", 1))
                       /\ c.method = "GET"}

\* the call that is taking steps, as it is kept while the other client runs
RunningCall ==
    [id |-> Running, pc |-> pc, call |-> call, sent |-> sent, received |-> received,
     response |-> response, verdict |-> verdict, parsed |-> parsed, outcome |-> outcome]

InitClients ==
    /\ Fresh
    /\ cancelled = FALSE
    /\ stored = DefaultStorage
    /\ dump_file = NoFile
    /\ pc = "request"
    /\ call \in ClientCalls(1)
    /\ sent = <<>>
    /\ received = <<>>
    /\ response = NoResponse
    /\ verdict = "none"
    /\ parsed = FALSE
    /\ outcome = Pending(<<>>)
    /\ \E c \in ClientCalls(2) : peer = [NoPeer EXCEPT !.id = 2, !.pc = "request", !.call = c]

\* the scheduler runs the task of the other client
Switch ==
    /\ peer.id # 0
    /\ peer' = RunningCall
    /\ pc' = peer.pc
    /\ call' = peer.call
    /\ sent' = peer.sent
    /\ received' = peer.received
    /\ response' = peer.response
    /\ verdict' = peer.verdict
    /\ parsed' = peer.parsed
    /\ outcome' = peer.outcome
    /\ UNCHANGED credVars
    /\ UNCHANGED <<cancelled, stored, dump_file>>

NextClients ==
    \/ SendRequest
    \/ RateLimit
    \/ Resend
    \/ Break
    \/ ReadSignature
    \/ ReadBody
    \/ VerifySignature
    \/ Parse
    \/ Dump
    \/ Switch

SpecClients == InitClients /\ [][NextClients]_vars

\* the task that runs the call is scheduled until the call ends: each step of
\* send that can be taken is eventually taken
SpecSendFair == InitSend /\ [][NextSend]_vars /\ WF_vars(NextSend)

\* the step machine and the send operator agree on how a call ends
SendAgrees ==
    pc = "done" =>
        \/ outcome = send(call.messenger, call.T, call.method, call.endpoint, call.body, received)
        \/ /\ outcome.why = "Failed to dump JSON to file"
           /\ SendPanic("Failed", outcome.requests, outcome.verified, outcome.parsed)
                  = send(call.messenger, call.T, call.method, call.endpoint, call.body, received)

----------------------------------------------------------------------------
(* SpecRecovery: the recovery flow of examples/example.rs.  pc is the       *)
(* function, or the step of a chain of transitions, the flow is at.         *)

\* the credentials ContextStorage can hold, by stage
\* The flat record of the example (ContextStorage) and its conversions.

\* serialize_public_key / serialize_private_key
serialize_public_key(key) == public_key_to_pem(key)
serialize_private_key(key) == private_key_to_pem_pkcs8(key)

\* impl From<SessionContext> for ContextStorage
ContextStorageFromSessionContext(c) ==
    [private_key |-> Some(serialize_private_key(c.private_key)),
     installation_token |-> Some(c.installation_token),
     bunq_public_key |-> Some(serialize_public_key(c.bunq_public_key)),
     bunq_api_key |-> Some(c.bunq_api_key),
     registered_device_id |-> Some(c.registered_device_id),
     session_token |-> Some(c.session_token),
     owner_id |-> Some(c.owner_id)]

\* impl From<Registered> for ContextStorage: bunq_api_key is left to Default
ContextStorageFromRegistered(c) ==
    [DefaultStorage EXCEPT
        !.private_key = Some(serialize_private_key(c.private_key)),
        !.installation_token = Some(c.installation_token),
        !.bunq_public_key = Some(serialize_public_key(c.bunq_public_key)),
        !.registered_device_id = Some(c.registered_device_id)]

\* impl From<Installed> for ContextStorage
ContextStorageFromInstalled(c) ==
    [DefaultStorage EXCEPT
        !.private_key = Some(serialize_private_key(c.private_key)),
        !.installation_token = Some(c.installation_token),
        !.bunq_public_key = Some(serialize_public_key(c.bunq_public_key))]

\* impl From<Initialized> for ContextStorage
ContextStorageFromInitialized(c) ==
    [DefaultStorage EXCEPT !.private_key = Some(serialize_private_key(c.private_key))]

\* ContextStorage::from(context) for the credential of a stage
ContextStorageFrom(s, c) ==
    CASE s \in {"Session", "Client"} -> ContextStorageFromSessionContext(c)
      [] s = "Registered" -> ContextStorageFromRegistered(c)
      [] s = "Installed" -> ContextStorageFromInstalled(c)
      [] s = "Initialized" -> ContextStorageFromInitialized(c)

\* parse_public_key / parse_private_key panic on a text that is no PEM
ParsesPublic(text) == IsSome(text) /\ IsSome(public_key_from_pem(Unwrap(text)))
ParsesPrivate(text) == IsSome(text) /\ IsSome(private_key_from_pem(Unwrap(text)))
parse_public_key(text) == Unwrap(public_key_from_pem(text))
parse_private_key(text) == Unwrap(private_key_from_pem(text))

\* the keys every stored stage from Installed on needs; the struct literal
\* evaluates bunq_public_key before private_key
KeysPanic(storage) ==
    IF ~IsSome(storage.bunq_public_key) THEN Panic("Cannot use .. without having Bunq's public key", <<>>)
    ELSE IF ~ParsesPublic(storage.bunq_public_key) THEN Panic("Failed to parse public key", <<>>)
    ELSE IF ~IsSome(storage.private_key) THEN Panic("Cannot use .. without having a private key", <<>>)
    ELSE Panic("Failed to parse private key", <<>>)
KeysLoad(storage) ==
    /\ ParsesPublic(storage.bunq_public_key)
    /\ ParsesPrivate(storage.private_key)

\* impl From<ContextStorage> for ContextType
ContextTypeFromContextStorage(storage) ==
    IF IsSome(storage.session_token) THEN
        IF ~IsSome(storage.registered_device_id)
            THEN Panic("Cannot use session token without registering device first", <<>>)
        ELSE IF ~IsSome(storage.bunq_api_key)
            THEN Panic("Cannot use session without having Bunq's API key", <<>>)
        ELSE IF ~IsSome(storage.installation_token)
            THEN Panic("Cannot use session token without installing device first", <<>>)
        ELSE IF ~KeysLoad(storage) THEN KeysPanic(storage)
        ELSE Ok("UncheckedSession",
                [session_token |-> Unwrap(storage.session_token),
                 registered_device_id |-> Unwrap(storage.registered_device_id),
                 bunq_api_key |-> Unwrap(storage.bunq_api_key),
                 installation_token |-> Unwrap(storage.installation_token),
                 bunq_public_key |-> parse_public_key(Unwrap(storage.bunq_public_key)),
                 private_key |-> parse_private_key(Unwrap(storage.private_key))], <<>>)
    ELSE IF IsSome(storage.registered_device_id) THEN
        IF ~IsSome(storage.bunq_api_key)
            THEN Panic("Cannot use device registration without having Bunq's API key", <<>>)
        ELSE IF ~IsSome(storage.installation_token)
            THEN Panic("Cannot use device registration without installing device first", <<>>)
        ELSE IF ~KeysLoad(storage) THEN KeysPanic(storage)
        ELSE Ok("Registered",
                [installation_token |-> Unwrap(storage.installation_token),
                 registered_device_id |-> Unwrap(storage.registered_device_id),
                 bunq_api_key |-> Unwrap(storage.bunq_api_key),
                 bunq_public_key |-> parse_public_key(Unwrap(storage.bunq_public_key)),
                 private_key |-> parse_private_key(Unwrap(storage.private_key))], <<>>)
    ELSE IF IsSome(storage.installation_token) THEN
        IF ~KeysLoad(storage) THEN KeysPanic(storage)
        ELSE Ok("Installed",
                [installation_token |-> Unwrap(storage.installation_token),
                 bunq_public_key |-> parse_public_key(Unwrap(storage.bunq_public_key)),
                 private_key |-> parse_private_key(Unwrap(storage.private_key))], <<>>)
    ELSE IF IsSome(storage.private_key) THEN
        IF ~ParsesPrivate(storage.private_key) THEN Panic("Failed to parse private key", <<>>)
        ELSE Ok("Initialized",
                [private_key |-> parse_private_key(Unwrap(storage.private_key))], <<>>)
    ELSE Ok("Uninitialized", UninitializedContext, <<>>)

StoredSessions ==
    {[owner_id |-> u, session_token |-> s, registered_device_id |-> d, bunq_api_key |-> a,
      installation_token |-> t, bunq_public_key |-> k, private_key |-> p] :
        u \in Ids, s \in SessionTokens, d \in Ids, a \in ApiKeys,
        t \in InstallationTokens, k \in ServerPublicKeys, p \in PrivateKeys}
StoredContexts(s) ==
    IF s = "UncheckedSession" THEN {UncheckedSessionFromSessionContext(c) : c \in StoredSessions}
    ELSE IF s = "Registered"
        THEN {RegisteredFromUncheckedSession(UncheckedSessionFromSessionContext(c)) :
                  c \in StoredSessions}
    ELSE IF s = "Installed"
        THEN {InstalledFromRegistered(RegisteredFromUncheckedSession(
                  UncheckedSessionFromSessionContext(c))) : c \in StoredSessions}
    ELSE IF s = "Initialized" THEN {[private_key |-> p] : p \in PrivateKeys}
    ELSE {UninitializedContext}

\* what context.json can hold when the example starts: nothing, or the fields
\* of the credential of a stage
StoredRecords ==
    {DefaultStorage}
        \cup {ContextStorageFromSessionContext(c) : c \in StoredSessions}
        \cup {[ContextStorageFromSessionContext(c) EXCEPT
                  !.session_token = None, !.owner_id = None] : c \in StoredSessions}
        \cup {ContextStorageFromInstalled(c) : c \in StoredSessions}
        \cup {ContextStorageFromInitialized(c) : c \in StoredSessions}

\* a faulty variant of TryFrom: a stored session is not tried, the flow starts
\* at the registration
TryFrom_skips_session(s) ==
    CASE s = "UncheckedSession" -> "try_from_registration"
      [] s = "Registered" -> "try_from_registration"
      [] s = "Installed" -> "try_from_installation"
      [] s = "Initialized" -> "try_from_initialization"
      [] s = "Uninitialized" -> "try_from_uninitialized"

\* the function main dispatches a stored credential of a stage to
TryFrom(s) ==
    CASE s = "UncheckedSession" -> "try_from_session"
      [] s = "Registered" -> "try_from_registration"
      [] s = "Installed" -> "try_from_installation"
      [] s = "Initialized" -> "try_from_initialization"
      [] s = "Uninitialized" -> "try_from_uninitialized"

\* ContextStorage::load and the conversion into ContextType
InitRecovery ==
    /\ stage \in {"UncheckedSession", "Registered", "Installed", "Initialized", "Uninitialized"}
    /\ context \in StoredContexts(stage)
    /\ messenger = None
    /\ last = [op |-> "load", stage |-> stage, input |-> context,
               answers |-> <<>>, ret |-> Ok(stage, context, <<>>),
               calls |-> <<>>, reply |-> NoReply]
    /\ issued = NothingIssued
    /\ cancelled = FALSE
    /\ peer = NoPeer
    /\ dump_file = NoFile
    /\ stored \in StoredRecords
    /\ ContextTypeFromContextStorage(stored) = Ok(stage, context, <<>>)
    /\ pc = "main"
    /\ call = NoCall
    /\ sent = <<>>
    /\ received = <<>>
    /\ response = NoResponse
    /\ verdict = "none"
    /\ parsed = FALSE
    /\ outcome = Pending(<<>>)

recoveryIdle == <<messenger, issued, call, sent, received, response, verdict, parsed, outcome>>

\* main: match context { .. => try_from_*(..).await }
Main ==
    /\ pc = "main"
    /\ pc' = TryFrom(stage)
    /\ UNCHANGED <<stage, context, last, recoveryIdle>>
    /\ UNCHANGED hostVars

\* one transition attempted by the flow: on Ok the flow goes on with the next
\* credential at on_ok; on Err(error) with what the Err arm does; a panic
\* aborts the flow
Attempt(op, answers, ret, on_ok, on_err, err_stage, err_context) ==
    /\ last' = Operation(op, answers, ret, <<op>>, NoReply)
    /\ pc' = IF ret.kind = "Ok" THEN on_ok
             ELSE IF ret.kind = "BuildError" THEN on_err
             ELSE "aborted"
    /\ stage' = IF ret.kind = "Ok" THEN ret.stage
                ELSE IF ret.kind = "BuildError" THEN err_stage
                ELSE "Aborted"
    /\ context' = IF ret.kind = "Ok" THEN ret.context
                  ELSE IF ret.kind = "BuildError" THEN err_context
                  ELSE NoContext
    /\ UNCHANGED recoveryIdle

\* a faulty variant of Then: a transition that failed is attempted again
Then_again(op, answers, ret, on_ok) ==
    Attempt(op, answers, ret, on_ok, pc, stage, context)

\* a transition of a chain after the first: .map_err(|_| ())? gives up
Then(op, answers, ret, on_ok) ==
    Attempt(op, answers, ret, on_ok, "failed", stage, context)

\* try_from_session
TryFromSession ==
    /\ pc = "try_from_session"
    /\ \E choice \in FinalChoices(UserBodies) :
       \E n \in Retries(choice) :
           Attempt("check_session",
                   Answers(UserBodies, context.bunq_public_key, n, choice),
                   check_session(context, Answers(UserBodies, context.bunq_public_key, n, choice)),
                   "build", "try_from_registration",
                   "Registered", RegisteredFromUncheckedSession(context))
    /\ UNCHANGED hostVars

\* try_from_registration
TryFromRegistration ==
    /\ pc = "try_from_registration"
    /\ \E choice \in FinalChoices(SessionBodies) :
       \E n \in Retries(choice) :
           Attempt("create_session",
                   Answers(SessionBodies, context.bunq_public_key, n, choice),
                   create_session(context, Answers(SessionBodies, context.bunq_public_key, n, choice)),
                   "build", "try_from_installation",
                   "Installed", InstalledFromRegistered(context))
    /\ UNCHANGED hostVars

\* try_from_installation: register_device
TryFromInstallation ==
    /\ pc = "try_from_installation"
    /\ \E k \in ApiKeys, choice \in FinalChoices(DeviceServerBodies) :
       \E n \in Retries(choice) :
           Attempt("register_device",
                   Answers(DeviceServerBodies, context.bunq_public_key, n, choice),
                   register_device(context, k, V("description", 1),
                       Answers(DeviceServerBodies, context.bunq_public_key, n, choice)),
                   "then_create_session", "try_from_initialization",
                   "Initialized", InitializedFromInstalled(context))
    /\ UNCHANGED hostVars

\* try_from_initialization: install_device
TryFromInitialization ==
    /\ pc = "try_from_initialization"
    /\ \E pem_ok \in BOOLEAN, status \in {200, RateLimitStatus},
          choice \in FinalChoices(InstallationBodies) :
           Attempt("install_device",
                   IF pem_ok THEN <<InstallationAnswer(choice, status)>> ELSE <<>>,
                   install_device(context, pem_ok, InstallationAnswer(choice, status)),
                   "then_register_device", "try_from_uninitialized",
                   "Uninitialized", UninitializedContext)
    /\ UNCHANGED hostVars

\* try_from_uninitialized: ClientBuilder::new().create_private_key()
TryFromUninitialized ==
    /\ pc = "try_from_uninitialized"
    /\ \E generated \in {None} \cup {Some(k) : k \in PrivateKeys} :
           Then("create_private_key", <<>>, create_private_key(UninitializedContext, generated),
                "then_install_device")
    /\ UNCHANGED hostVars

\* builder.install_device().await.map_err(|_| ())?
ThenInstallDevice ==
    /\ pc = "then_install_device"
    /\ \E pem_ok \in BOOLEAN, status \in {200, RateLimitStatus},
          choice \in FinalChoices(InstallationBodies) :
           Then("install_device",
                IF pem_ok THEN <<InstallationAnswer(choice, status)>> ELSE <<>>,
                install_device(context, pem_ok, InstallationAnswer(choice, status)),
                "then_register_device")
    /\ UNCHANGED hostVars

\* .register_device(bunq_api_key.clone(), format!("my-test-device")).await.map_err(|_| ())?
ThenRegisterDevice ==
    /\ pc = "then_register_device"
    /\ \E k \in ApiKeys, choice \in FinalChoices(DeviceServerBodies) :
       \E n \in Retries(choice) :
           Then("register_device",
                Answers(DeviceServerBodies, context.bunq_public_key, n, choice),
                register_device(context, k, V("description", 1),
                    Answers(DeviceServerBodies, context.bunq_public_key, n, choice)),
                "then_create_session")
    /\ UNCHANGED hostVars

\* .create_session().await.map_err(|_| ())?
ThenCreateSession ==
    /\ pc = "then_create_session"
    /\ \E choice \in FinalChoices(SessionBodies) :
       \E n \in Retries(choice) :
           Then("create_session",
                Answers(SessionBodies, context.bunq_public_key, n, choice),
                create_session(context, Answers(SessionBodies, context.bunq_public_key, n, choice)),
                "build")
    /\ UNCHANGED hostVars

\* Ok(builder.build())
ThenBuild ==
    /\ pc = "build"
    /\ stage' = "Client"
    /\ context' = build(context).context
    /\ messenger' = Some(build(context).messenger)
    /\ last' = Operation("build", <<>>, Ok("Client", build(context).context, <<>>), <<>>, NoReply)
    /\ pc' = "built"
    /\ UNCHANGED <<issued, call, sent, received, response, verdict, parsed, outcome>>
    /\ UNCHANGED hostVars

\* main: ContextStorage::from(client.context).store().await; written is
\* whether fs::write succeeds
Save ==
    /\ pc = "built"
    /\ \E written \in BOOLEAN :
           IF written
               THEN /\ stored' = ContextStorageFrom(stage, context)
                    /\ pc' = "saved"
                    /\ UNCHANGED <<stage, context, messenger>>
               ELSE /\ UNCHANGED stored
                    /\ pc' = "aborted"
                    /\ stage' = "Aborted"
                    /\ context' = NoContext
                    /\ messenger' = None
    /\ UNCHANGED <<last, issued, call, sent, received, response, verdict, parsed, outcome>>
    /\ UNCHANGED <<cancelled, peer, dump_file>>

NextRecovery ==
    \/ Main
    \/ TryFromSession
    \/ TryFromRegistration
    \/ TryFromInstallation
    \/ TryFromInitialization
    \/ TryFromUninitialized
    \/ ThenInstallDevice
    \/ ThenRegisterDevice
    \/ ThenCreateSession
    \/ ThenBuild
    \/ Save

SpecRecovery == InitRecovery /\ [][NextRecovery]_vars

\* main runs on one thread, and a call it makes returns or panics once its
\* requests are answered: the flow leaves every position other than its last
main_proceeds ==
    /\ pc \notin {"saved", "failed", "aborted"}
    /\ pc' \in {"try_from_session", "try_from_registration", "try_from_installation",
               "try_from_initialization", "try_from_uninitialized",
               "then_install_device", "then_register_device", "then_create_session",
               "build", "built", "saved", "failed", "aborted"}

SpecRecoveryFair == InitRecovery /\ [][NextRecovery]_vars /\ WF_pc(main_proceeds)

----------------------------------------------------------------------------
(* SpecCodec: serde_json::from_slice::<ApiResponseBody<T>> applied to a     *)
(* body, then into_result.  call.T is the payload type asked for,           *)
(* response.body the bytes, outcome what the decoder gave.                  *)

\* the payload types the library decodes
PayloadTypes ==
    {"Installation", "Session", "Single<DeviceServerSmall>", "Single<User>",
     "Single<MonetaryAccountBankWrapper>", "Multiple<MonetaryAccountBankWrapper>",
     "Single<BunqMeTabWrapper>", "Single<CreateBunqMeTabResponseWrapper>"}
SingleTypes ==
    {"Single<DeviceServerSmall>", "Single<User>", "Single<MonetaryAccountBankWrapper>",
     "Single<BunqMeTabWrapper>", "Single<CreateBunqMeTabResponseWrapper>"}

\* the elements a Response array is made of, and the arrays
CodecElements ==
    {Element(k, v) : k \in {"Id", "UserPerson", "MonetaryAccountBank"}, v \in {FirstId, BadValue}}
        \cup {Element("Token", V("session_token", 1))}
CodecArrays == UNION {[1..n -> CodecElements] : n \in 0..MaxLen}

\* the bodies: malformed JSON, or an object with or without each of the keys
\* Error (a list of descriptions, an empty list, a list of something else),
\* Response and Pagination
CodecBodies ==
    {Malformed} \cup
    {Body(e, r, p) : e \in {None, Some(ErrorList), Some(<<>>), Some(<<BadValue>>)},
                     r \in {None} \cup {Some(a) : a \in CodecArrays},
                     p \in {None, Some(V("pagination", 0))}}

InitCodec ==
    /\ Fresh
    /\ Alone
    /\ pc = "bytes"
    /\ \E T \in PayloadTypes : call = [NoCall EXCEPT !.T = T]
    /\ sent = <<>>
    /\ received = <<>>
    /\ \E bytes \in CodecBodies : response = HttpResponse(TRUE, 200, None, TRUE, bytes)
    /\ verdict = "none"
    /\ parsed = FALSE
    /\ outcome = ParsePanic("")

\* serde_json::from_slice(&response_body)
FromSlice ==
    /\ pc = "bytes"
    /\ outcome' = DeserializeApiResponseBody(call.T, response.body)
    /\ parsed' = TRUE
    /\ pc' = IF outcome'.kind = "Panic" THEN "panicked"
             ELSE IF outcome'.kind = "ParseErr" THEN "failed"
             ELSE "decoded"
    /\ UNCHANGED <<call, sent, received, response, verdict, credVars>>
    /\ UNCHANGED hostVars

\* response.body.into_result()
IntoResult ==
    /\ pc = "decoded"
    /\ verdict' = IF into_result(outcome).ok THEN "Ok" ELSE "Err"
    /\ pc' = "result"
    /\ UNCHANGED <<call, sent, received, response, parsed, outcome, credVars>>
    /\ UNCHANGED hostVars

NextCodec ==
    \/ FromSlice
    \/ IntoResult

SpecCodec == InitCodec /\ [][NextCodec]_vars

----------------------------------------------------------------------------
(* SpecStorage: a credential of each stage is converted to the flat record, *)
(* the record is stored in context.json, and the file is loaded back.      *)

StoredCredentials(s) ==
    IF s = "Session" THEN StoredSessions
    ELSE IF s = "Registered"
        THEN {RegisteredFromUncheckedSession(UncheckedSessionFromSessionContext(c)) :
                  c \in StoredSessions}
    ELSE IF s = "Installed"
        THEN {InstalledFromRegistered(RegisteredFromUncheckedSession(
                  UncheckedSessionFromSessionContext(c))) : c \in StoredSessions}
    ELSE {[private_key |-> p] : p \in PrivateKeys}

InitStorage ==
    /\ stage \in {"Session", "Registered", "Installed", "Initialized"}
    /\ context \in StoredCredentials(stage)
    /\ messenger = None
    /\ last = [op |-> "new", stage |-> stage, input |-> context,
               answers |-> <<>>, ret |-> Ok(stage, context, <<>>),
               calls |-> <<>>, reply |-> NoReply]
    /\ issued = NothingIssued
    /\ SendIdle
    /\ Alone

\* ContextStorage::from(context).store(): the credential is consumed; written
\* is whether fs::write succeeds
StoreContext ==
    /\ pc = "idle"
    /\ \E written \in BOOLEAN :
           IF written
               THEN /\ stored' = ContextStorageFrom(stage, context)
                    /\ pc' = "stored"
                    /\ stage' = "Stored"
                    /\ last' = Operation("store", <<>>, Ok(stage, context, <<>>), <<>>, NoReply)
               ELSE /\ UNCHANGED stored
                    /\ pc' = "aborted"
                    /\ stage' = "Aborted"
                    /\ last' = Operation("store", <<>>,
                                         Panic("Failed to store context file", <<>>),
                                         <<>>, NoReply)
    /\ context' = NoContext
    /\ UNCHANGED <<messenger, issued, call, sent, received, response, verdict, parsed, outcome>>
    /\ UNCHANGED <<cancelled, peer, dump_file>>

\* ContextStorage::load().await.unwrap_or_default().into(): readable is whether
\* the file can be read
LoadContext ==
    /\ pc = "stored"
    /\ \E readable \in BOOLEAN :
           LET loaded == ContextTypeFromContextStorage(IF readable THEN stored ELSE DefaultStorage) IN
               /\ stage' = loaded.stage
               /\ context' = loaded.context
               /\ last' = [last EXCEPT !.op = "load", !.ret = loaded]
               /\ pc' = IF loaded.kind = "Panic" THEN "aborted"
                         ELSE IF readable THEN "loaded"
                         ELSE "defaulted"
    /\ UNCHANGED <<messenger, issued, call, sent, received, response, verdict, parsed, outcome>>
    /\ UNCHANGED hostVars

NextStorage ==
    \/ StoreContext
    \/ LoadContext

SpecStorage == InitStorage /\ [][NextStorage]_vars

----------------------------------------------------------------------------
(* Properties of one call of send (SpecSend).                              *)

\* the response in hand carries a signature of its body by the server key the
\* messenger holds
SignatureVerifies ==
    /\ IsSome(response.server_signature)
    /\ IsSome(Base64Decode(Unwrap(response.server_signature)))
    /\ Verify(bunq_public_key, response.body,
              Unwrap(Base64Decode(Unwrap(response.server_signature))))

\* the call has ended on a response other than 429
FinalAnswered ==
    /\ pc = "done"
    /\ response.delivered
    /\ response.status # RateLimitStatus

\* the number of 429 answers the call received
RateLimitedCount ==
    Cardinality({i \in DOMAIN received : received[i].delivered /\ received[i].status = RateLimitStatus})

\* C1: in send, the body of a response is handed to the envelope parser, and a
\* Response returned to the caller, only after its signature was checked
\* against the stored server public key and found valid; a body whose
\* signature does not verify is never parsed and never returned.
C1_ParsedOnlyAfterVerified ==
    /\ pc = "parse" => verdict = "valid" /\ SignatureVerifies
    /\ parsed => verdict = "valid" /\ SignatureVerifies
    /\ outcome.kind = "Response" => parsed /\ outcome.verified /\ SignatureVerifies
    /\ (pc = "done" /\ ~SignatureVerifies) => ~parsed /\ outcome.kind = "Panic"

\* a call that returned a Response after a 429, and so after verifying and parsing
C1_Witness ==
    /\ pc = "done"
    /\ parsed
    /\ outcome.kind = "Response"
    /\ verdict = "valid"
    /\ RateLimitedCount >= 1

\* C2: a verified send whose response (other than 429) carries no server
\* signature header fails for that call with the signature failure (the fatal
\* "No Server signature available"), and the body is never handed to the codec.
C2_MissingSignatureFails ==
    /\ pc \in {"body", "verify", "parse"} => IsSome(response.server_signature)
    /\ (FinalAnswered /\ ~IsSome(response.server_signature)) =>
            /\ outcome.kind = "Panic"
            /\ outcome.why = "No Server signature available. Cannot validate response"
            /\ ~parsed
            /\ ~outcome.parsed

\* a call that ended on a response without the header
C2_Witness ==
    /\ FinalAnswered
    /\ ~IsSome(response.server_signature)
    /\ outcome.kind = "Panic"

Decodes ==
    /\ response.readable
    /\ DeserializeApiResponseBody(call.T, response.body).kind \in {"Ok", "ApiErr"}

----------------------------------------------------------------------------
(* Properties of the credential state machine and the client (Spec).       *)

StageRank(s) ==
    CASE s = "Uninitialized" -> 0
      [] s = "Initialized" -> 1
      [] s = "Installed" -> 2
      [] s = "Registered" -> 3
      [] s = "UncheckedSession" -> 3
      [] s = "Session" -> 4
      [] s = "Client" -> 5

\* the stage each transition is called on and the stage it gives on success
Transitions ==
    {<<"with_private_key", "Uninitialized", "Initialized">>,
     <<"create_private_key", "Uninitialized", "Initialized">>,
     <<"install_device", "Initialized", "Installed">>,
     <<"register_device", "Installed", "Registered">>,
     <<"create_session", "Registered", "Session">>,
     <<"check_session", "UncheckedSession", "Session">>}
TransitionOps == {t[1] : t \in Transitions}

\* the first answer other than 429 among the answers to an operation
FinalAnswer(answers) ==
    answers[CHOOSE i \in DOMAIN answers :
                /\ answers[i].status # RateLimitStatus
                /\ \A j \in 1..(i - 1) : answers[j].status = RateLimitStatus]

\* the operation's request was answered with an Error envelope, well signed
ErrorAnswered ==
    /\ last.answers # <<>>
    /\ FinalAnswer(last.answers).delivered
    /\ FinalAnswer(last.answers).readable
    /\ FinalAnswer(last.answers).body = ErrorEnvelope
    /\ FinalAnswer(last.answers).server_signature = SignedBy(last.input.bunq_public_key, ErrorEnvelope)

\* C3: every successful stage transition advances the credential by exactly
\* one stage in the fixed order, check_session takes UncheckedSession only to
\* Session, no operation skips a stage forward, and a Client is built only
\* from a Session-stage credential.
C3_OneStageAtATime ==
    /\ (last.op \in TransitionOps /\ last.ret.kind = "Ok") =>
            /\ <<last.op, last.stage, stage>> \in Transitions
            /\ StageRank(stage) = StageRank(last.stage) + 1
    /\ stage # "Aborted" => StageRank(stage) <= StageRank(last.stage) + 1
    /\ last.op = "build" => last.stage = "Session" /\ stage = "Client"
    /\ stage = "Client" => last.stage \in {"Session", "Client"}

\* a Client built from a Session
C3_Witness ==
    /\ stage = "Client"
    /\ last.op = "build"
    /\ last.stage = "Session"

\* C4: whenever a stage transition fails, it returns a BuildError whose
\* context is the credential of the stage it was called on, equal in every
\* field to the input credential.
C4_FailureReturnsBuildError ==
    (last.op \in TransitionOps /\ last.ret.kind # "Ok") =>
        /\ last.ret.kind = "BuildError"
        /\ last.ret.stage = last.stage
        /\ last.ret.context = last.input

\* C5: when the GET of check_session is answered with an Error envelope,
\* check_session reports a failure from which the credential degrades to
\* Registered (session token dropped, every other field kept); it does not abort.
C5_CheckSessionDegrades ==
    (last.op = "check_session" /\ ErrorAnswered) =>
        /\ last.ret.kind = "BuildError"
        /\ stage = "UncheckedSession"
        /\ RegisteredFromUncheckedSession(context) = RegisteredFromUncheckedSession(last.input)

\* what check_session gave inside the last ensure_session
EnsureCheck ==
    check_session(UncheckedSessionFromSessionContext(last.input), last.answers)

\* C6: ensure_session first performs check_session; if it succeeds, a Client
\* for the same session is returned and create_session is not called; if it
\* fails, create_session is performed exactly once on the degraded Registered
\* credential and, on success, a Client holding the new session is returned.
C6_EnsureSessionFallsBack ==
    last.op = "ensure_session" =>
        /\ Head(last.calls) = "check_session"
        /\ EnsureCheck.kind = "Ok" =>
                /\ last.calls = <<"check_session">>
                /\ last.ret.kind = "Ok"
                /\ stage = "Client"
                /\ context.session_token = last.input.session_token
        /\ EnsureCheck.kind # "Ok" =>
                /\ last.calls = <<"check_session", "create_session">>
                /\ last.ret.kind = "Ok" => stage = "Client"

\* C7: for a Session whose session check is answered with an Error envelope,
\* ensure_session returns a Registered-stage credential without session token
\* and owner id, whose private key, installation token, server public key,
\* API secret and registered device id are those of the session it was called on.
C7_EnsureSessionReturnsRegistered ==
    (last.op = "ensure_session" /\ ErrorAnswered) =>
        /\ last.ret.kind = "Err"
        /\ stage = "Registered"
        /\ DOMAIN context = {"private_key", "installation_token", "bunq_public_key",
                             "bunq_api_key", "registered_device_id"}
        /\ \A f \in DOMAIN context : context[f] = last.input[f]

\* C9: after install_device, register_device and create_session have
\* succeeded, the Session credential holds exactly the session token and owner
\* id the server returned in the session-server response, with the
\* installation token and server public key returned at installation and the
\* device id returned at registration.
C9_SessionHoldsWhatServerIssued ==
    (last.op = "create_session" /\ last.ret.kind = "Ok") =>
        /\ stage = "Session"
        /\ Some(context.session_token) = issued.session_token
        /\ Some(context.owner_id) = issued.owner_id
        /\ Some(context.installation_token) = issued.installation_token
        /\ Some(context.bunq_public_key) = issued.bunq_public_key
        /\ Some(context.registered_device_id) = issued.registered_device_id

\* a Session created with the last token and the last user id the server can issue
C9_Witness ==
    /\ last.op = "create_session"
    /\ last.ret.kind = "Ok"
    /\ stage = "Session"
    /\ context.session_token = V("session_token", NumTokens)
    /\ context.owner_id = V("u32", NumIds)
    /\ context.registered_device_id = V("u32", NumIds)

\* the bearer tokens of the requests of the last operation
Bearers == {last.ret.requests[i].client_authentication : i \in DOMAIN last.ret.requests}

\* C10: the bearer token is the installation token on the register_device and
\* create_session requests, and the session token on the check_session request
\* and on every business call of a Client; no request made through a Client
\* carries the installation token as bearer.
C10_BearerToken ==
    /\ last.op \in {"register_device", "create_session"} =>
            Bearers = {Some(last.input.installation_token)}
    /\ last.op \in {"check_session", "get_user", "get_monetary_accounts", "get_monetary_account",
                    "get_payment_request", "create_payment_request", "close_payment_request"} =>
            Bearers = {Some(last.input.session_token)}
    /\ last.op = "ensure_session" =>
            last.ret.requests[1].client_authentication = Some(last.input.session_token)
    /\ last.stage = "Client" => Some(last.input.installation_token) \notin Bearers

\* a business call of a Client that was retried after a 429
C10_Witness ==
    /\ last.op = "get_user"
    /\ last.ret.kind = "Ok"
    /\ Len(last.ret.requests) >= 2
    /\ Bearers = {Some(context.session_token)}

\* the operations that talk to the server once the server's key is known
VerifiedOps ==
    {"register_device", "create_session", "check_session",
     "get_user", "get_monetary_accounts", "get_monetary_account",
     "get_payment_request", "create_payment_request", "close_payment_request"}

\* the answer carries a signature of its body that verifies against public_key
AnswerVerifies(public_key, answer) ==
    /\ answer.delivered
    /\ IsSome(answer.server_signature)
    /\ IsSome(Base64Decode(Unwrap(answer.server_signature)))
    /\ Verify(public_key, answer.body, Unwrap(Base64Decode(Unwrap(answer.server_signature))))

\* C11: install_device is the only operation that takes the server's answer
\* unverified: what it returns does not depend on the signature of the answer;
\* register_device, create_session, check_session and every business call of
\* a Client return without failure only on an answer whose signature verifies
\* against the stored server public key.
C11_OnlyInstallUnverified ==
    /\ (last.op = "install_device" /\ last.answers # <<>>) =>
            last.ret = install_device(last.input, TRUE,
                                      [last.answers[1] EXCEPT !.server_signature = None])
    /\ (last.op \in VerifiedOps /\ last.ret.kind # "Panic") =>
            AnswerVerifies(last.input.bunq_public_key, FinalAnswer(last.answers))
    /\ (last.op = "ensure_session" /\ last.ret.kind # "Panic") =>
            AnswerVerifies(last.input.bunq_public_key, FinalAnswer(last.answers))

\* install_device has succeeded on an answer that carries no signature
C11_Witness ==
    /\ last.op = "install_device"
    /\ last.ret.kind = "Ok"
    /\ stage = "Installed"
    /\ last.answers[1].server_signature = None

\* C12: a response whose signature does not verify is never retried: once the
\* first response other than 429 has failed verification, the call has ended
\* in failure, its body was not parsed, and no request was issued after the
\* one this response answers.
C12_InvalidSignatureNotRetried ==
    verdict \in {"invalid", "panic"} =>
        /\ pc = "done"
        /\ outcome.kind = "Panic"
        /\ ~parsed
        /\ Len(sent) = Len(received)
        /\ Len(sent) = RateLimitedCount + 1
        /\ received[Len(received)] = response
        /\ response.status # RateLimitStatus
        /\ ~SignatureVerifies

\* a call that was answered 429, sent again, and then answered with a body
\* signed by another key
C12_Witness ==
    /\ verdict = "invalid"
    /\ pc = "done"
    /\ RateLimitedCount >= 1
    /\ Len(sent) = RateLimitedCount + 1

\* the request of the transition was answered with an Error envelope the
\* transition accepts as coming from the server
TransitionErrorAnswered ==
    /\ last.answers # <<>>
    /\ IF last.op = "install_device"
           THEN /\ last.answers[1].delivered
                /\ last.answers[1].readable
                /\ last.answers[1].body = ErrorEnvelope
           ELSE ErrorAnswered

\* C13: when the server answers the request of install_device, register_device
\* or create_session with an Error envelope, the caller gets an error value
\* (a BuildError) and the process is not aborted.
C13_ErrorEnvelopeSurfaced ==
    (last.op \in {"install_device", "register_device", "create_session"} /\ TransitionErrorAnswered) =>
        /\ last.ret.kind = "BuildError"
        /\ last.ret.reason = "BunqResponseError"
        /\ stage # "Aborted"

\* the last request of the operation could not be sent, or the body of its
\* answer could not be read
TransportFailed ==
    /\ last.answers # <<>>
    /\ \/ ~last.answers[Len(last.answers)].delivered
       \/ ~last.answers[Len(last.answers)].readable

\* C14: a transport failure during a stage transition (the request cannot be
\* sent, or the body of the response cannot be read) is reported to the caller
\* as a BuildError carrying the unchanged stage, and the process is not aborted.
C14_TransportFailureIsBuildError ==
    (last.op \in TransitionOps /\ TransportFailed) =>
        /\ last.ret.kind = "BuildError"
        /\ last.ret.stage = last.stage
        /\ last.ret.context = last.input
        /\ stage = last.stage

\* the stage a credential degrades to by one step
Previous(s) ==
    CASE s = "UncheckedSession" -> "Registered"
      [] s = "Session" -> "Registered"
      [] s = "Registered" -> "Installed"
      [] s = "Installed" -> "Initialized"
      [] s = "Initialized" -> "Uninitialized"
      [] s = "Uninitialized" -> "Uninitialized"

\* C15: in the recovery flow, every failed stage transition is followed by an
\* attempt from exactly the previous stage (session check, then create
\* session, then register device, then install device, then create key): after
\* a failure the flow is at the function that starts from the stage one below
\* the stage the failed transition was called on, holding a credential of
\* that stage.
C15_RecoveryStepsBackOneStage ==
    (last.op \in TransitionOps /\ last.ret.kind # "Ok" /\ last.stage # "Uninitialized") =>
        /\ stage = Previous(last.stage)
        /\ pc = TryFrom(Previous(last.stage))

\* the endpoints the requests of the last operation went to
Endpoints == {last.ret.requests[i].url[2] : i \in DOMAIN last.ret.requests}

\* the endpoint of the request each transition makes
EndpointsOf(op) ==
    CASE op = "install_device" -> {<<Seg("installation")>>}
      [] op = "register_device" -> {<<Seg("device-server")>>}
      [] op = "create_session" -> {<<Seg("session-server")>>}
      [] op = "check_session" -> {<<Seg("user")>>}
      [] OTHER -> {}

\* C16: ensure_session is the only operation of the library that performs more
\* than one stage transition, and it goes back at most one stage: what it
\* performs is check_session, or check_session and then create_session, never
\* register_device, install_device or the creation of a key, and what it
\* returns is a Client or a Registered credential; every transition of
\* ClientBuilder performs itself only, and a business call performs none.
C16_OnlyEnsureSessionChains ==
    /\ Len(last.calls) > 1 => last.op = "ensure_session"
    /\ last.op = "ensure_session" =>
            /\ last.calls \in {<<"check_session">>, <<"check_session", "create_session">>}
            /\ Endpoints \subseteq {<<Seg("user")>>, <<Seg("session-server")>>}
            /\ stage \in {"Client", "Registered", "Aborted"}
    /\ last.op \in TransitionOps =>
            /\ last.calls = <<last.op>>
            /\ Endpoints \subseteq EndpointsOf(last.op)
    /\ (last.stage = "Client" /\ last.op # "ensure_session") => last.calls = <<>>

\* ensure_session has checked the session of a Client and has made its one
\* request, to the user endpoint
C16_Witness ==
    /\ last.op = "ensure_session"
    /\ last.stage = "Client"
    /\ last.calls = <<"check_session">>
    /\ Endpoints = {<<Seg("user")>>}

\* the fields of the credential of each stage
StageFields(s) ==
    CASE s = "Session" -> {"owner_id", "session_token", "registered_device_id", "bunq_api_key",
                           "installation_token", "bunq_public_key", "private_key"}
      [] s = "UncheckedSession" -> {"session_token", "registered_device_id", "bunq_api_key",
                                    "installation_token", "bunq_public_key", "private_key"}
      [] s = "Registered" -> {"registered_device_id", "bunq_api_key",
                              "installation_token", "bunq_public_key", "private_key"}
      [] s = "Installed" -> {"installation_token", "bunq_public_key", "private_key"}
      [] s = "Initialized" -> {"private_key"}

\* a credential with the fields of a stage only
Restrict(c, s) == [f \in StageFields(s) |-> c[f]]

\* the one-step degradations
DegradeOps == {"into_unchecked_session", "into_registered", "into_installed", "into_initialized"}

\* C17: degrading a credential one stage (Session to UncheckedSession, to
\* Registered, to Installed, to Initialized) never fails and gives the
\* credential of the earlier stage with exactly that stage's fields, each with
\* the value it had before; composing the one-step degradations takes a
\* Session credential to every earlier stage with the same result.
C17_DegradeOnlyDropsFields ==
    /\ last.op \in DegradeOps =>
            /\ last.ret.kind = "Ok"
            /\ StageRank(stage) <= StageRank(last.stage)
            /\ DOMAIN context = StageFields(stage)
            /\ StageFields(stage) \subseteq DOMAIN last.input
            /\ context = Restrict(last.input, stage)
    /\ stage = "Session" =>
            /\ UncheckedSessionFromSessionContext(context) = Restrict(context, "UncheckedSession")
            /\ RegisteredFromUncheckedSession(UncheckedSessionFromSessionContext(context))
                   = Restrict(context, "Registered")
            /\ InstalledFromRegistered(RegisteredFromUncheckedSession(
                   UncheckedSessionFromSessionContext(context))) = Restrict(context, "Installed")
            /\ InitializedFromInstalled(InstalledFromRegistered(RegisteredFromUncheckedSession(
                   UncheckedSessionFromSessionContext(context)))) = Restrict(context, "Initialized")

\* a credential with a session degraded to Registered
C17_Witness ==
    /\ last.op = "into_registered"
    /\ stage = "Registered"
    /\ "session_token" \in DOMAIN last.input
    /\ "session_token" \notin DOMAIN context
    /\ context.installation_token = last.input.installation_token

\* the transitions whose result is a function of their inputs and of the
\* answers of the server
ReplayOps == {"with_private_key", "install_device", "register_device", "create_session", "check_session"}

\* the credential in hand, degraded to the stage the last transition was called on
Degraded ==
    CASE last.op = "install_device" -> InitializedFromInstalled(context)
      [] last.op = "register_device" -> InstalledFromRegistered(context)
      [] last.op = "create_session" ->
            RegisteredFromUncheckedSession(UncheckedSessionFromSessionContext(context))
      [] last.op = "check_session" -> UncheckedSessionFromSessionContext(context)
      [] OTHER -> UninitializedContext

\* the last transition performed again on the degraded credential, with the
\* same inputs and the same answers
Replayed(device_description) ==
    CASE last.op = "with_private_key" -> with_private_key(Degraded, context.private_key)
      [] last.op = "install_device" -> install_device(Degraded, TRUE, last.answers[1])
      [] last.op = "register_device" ->
            register_device(Degraded, context.bunq_api_key, device_description, last.answers)
      [] last.op = "create_session" -> create_session(Degraded, last.answers)
      [] last.op = "check_session" -> check_session(Degraded, last.answers)

\* C18 as stated: for every stage above Uninitialized, Initialized and the
\* creation of its key included, degrading and replaying the transition gives
\* the original credential, whichever key the generator produces this time.
C18_AsStated ==
    /\ (last.op \in ReplayOps /\ last.ret.kind = "Ok") =>
            \A d \in Descriptions :
                /\ Replayed(d).kind = "Ok"
                /\ Replayed(d).context = context
    /\ (last.op = "create_private_key" /\ last.ret.kind = "Ok") =>
            \A k \in PrivateKeys :
                create_private_key(UninitializedContext, Some(k)).context = context

\* C18, amended: for the transitions whose result is determined by their
\* inputs and the answers of the server (with_private_key, install_device,
\* register_device, create_session, check_session), degrading the credential
\* they gave by one stage gives back the credential they were called on, and
\* replaying the transition on it with the same inputs and the same answers
\* gives a credential equal in every field to the original.
C18_ReplayGivesSameCredential ==
    (last.op \in ReplayOps /\ last.ret.kind = "Ok") =>
        /\ Degraded = last.input
        /\ \A d \in Descriptions :
               /\ Replayed(d).kind = "Ok"
               /\ Replayed(d).stage = stage
               /\ Replayed(d).context = context

\* a session created after a 429, which the replay has to go through again
C18_Witness ==
    /\ last.op = "create_session"
    /\ last.ret.kind = "Ok"
    /\ stage = "Session"
    /\ Len(last.answers) >= 2
    /\ create_session(Degraded, last.answers).context = context

\* the body decoded has both an Error key and a Response key
BothKeys ==
    /\ pc # "bytes"
    /\ response.body.valid
    /\ IsSome(response.body.Error)
    /\ IsSome(response.body.Response)

\* the Error key holds a list of error descriptions
ErrorsListed ==
    \A i \in 1..Len(Unwrap(response.body.Error)) :
        IsErrorDescription(Unwrap(response.body.Error)[i])

C20_SingleShapeMismatch ==
    (/\ pc # "bytes"
     /\ call.T \in SingleTypes
     /\ response.body.valid
     /\ ~IsSome(response.body.Error)
     /\ IsSome(response.body.Response)
     /\ Len(Unwrap(response.body.Response)) \in {0, 2}) =>
        /\ outcome.kind = "ParseErr"
        /\ pc = "failed"

\* a body without an Error key has been decoded as the payload type T
DecodedAs(T) ==
    /\ pc # "bytes"
    /\ call.T = T
    /\ response.body.valid
    /\ ~IsSome(response.body.Error)

\* C21: decoding a Multiple<T> from a body that has no Pagination key gives
\* an error value: the decoder does not abort and does not return a list.
C21_MultipleWithoutPagination ==
    (DecodedAs("Multiple<MonetaryAccountBankWrapper>") /\ ~IsSome(response.body.Pagination)) =>
        /\ outcome.kind = "ParseErr"
        /\ pc = "failed"

\* C22: decoding the installation response or the session-creation response
\* from a Response array of fewer than three elements gives an error value:
\* the decoder does not abort.
C22_ShortPositionalResponse ==
    (/\ DecodedAs("Installation") \/ DecodedAs("Session")
     /\ IsSome(response.body.Response)
     /\ Len(Unwrap(response.body.Response)) < 3) =>
        /\ outcome.kind = "ParseErr"
        /\ pc = "failed"

\* C23: when the body of a response fails to decode, the caller receives the
\* typed error, whether the dump of the raw body has succeeded or failed.
C23_DecodeErrorReturned ==
    (/\ pc = "done"
     /\ parsed
     /\ DeserializeApiResponseBody(call.T, response.body).kind = "ParseErr") =>
        /\ outcome.kind = "Err"
        /\ outcome.body.kind = "ParseErr"

\* ---------------------------------------------------------------------------
\* the body signature of a request

\* the request r carries the signature of its own body, made with private_key,
\* when it has a body, and no signature when it has none
SignedAsSent(r, private_key) ==
    /\ IsSome(r.client_signature) <=> IsSome(r.body)
    /\ IsSome(r.body) =>
           Base64Decode(Unwrap(r.client_signature)) = Some(Sign(private_key, Unwrap(r.body)))

\* C24: every request an operation sends carries the X-Bunq-Client-Signature
\* header if and only if it has a body, and the header is the base64 of the
\* signature of exactly that body under the private key of the credential the
\* operation's messenger was made from.
C24_BodySignedIffPresent ==
    \A i \in 1..Len(last.ret.requests) :
        SignedAsSent(last.ret.requests[i], last.input.private_key)

\* a client operation with a body (the creation of a payment request) has
\* sent a request that carries a signature and the bearer token
C24_Witness ==
    /\ last.op = "create_payment_request"
    /\ Len(last.ret.requests) >= 1
    /\ IsSome(last.ret.requests[1].client_authentication)
    /\ IsSome(last.ret.requests[1].body)
    /\ IsSome(last.ret.requests[1].client_signature)

\* ---------------------------------------------------------------------------
\* key material in requests

\* the values serde_json::to_string writes for a request body
BodyLeaves(json) ==
    CASE json.json = "CreateInstallation" -> {json.fields.client_public_key}
      [] json.json = "CreateDeviceServer" -> {json.fields.secret, json.fields.description}
      [] json.json = "CreateSession" -> {json.fields.secret}
      [] json.json = "CreateBunqMeTabWrapper" ->
             {json.fields.amount_inquired.value, json.fields.amount_inquired.currency,
              json.fields.description, json.fields.redirect_url}
      [] json.json = "AlterBunqMeTabRequest" -> {json.fields.status}

\* the values of a request outside its body and its signature header
HeaderLeaves(r) ==
    {r.url[1], r.user_agent}
        \cup {r.url[2][i] : i \in 1..Len(r.url[2])}
        \cup {r.client_authentication[i] : i \in 1..Len(r.client_authentication)}

IsKeyMaterial(v) == v.t \in {"private_key", "public_key", "pem_private", "pem_public"}

\* C25: over every transition and business call, no request holds the private
\* key: outside the signature header no header or url value is key material,
\* the only key material in a body is the PEM of the public key derived from
\* the credential's private key, in the body of the installation, and the
\* signature header is a signature made with that private key.
C25_PrivateKeyNeverSent ==
    \A i \in 1..Len(last.ret.requests) :
        LET r == last.ret.requests[i] IN
            /\ \A v \in HeaderLeaves(r) : ~IsKeyMaterial(v)
            /\ IsSome(r.body) =>
                   \A v \in BodyLeaves(Unwrap(r.body)) :
                       IsKeyMaterial(v) =>
                           /\ last.op = "install_device"
                           /\ v = public_key_to_pem(PublicOf(last.input.private_key))
            /\ IsSome(r.client_signature) =>
                   /\ IsSome(Base64Decode(Unwrap(r.client_signature)))
                   /\ Unwrap(Base64Decode(Unwrap(r.client_signature)))
                          = Sign(last.input.private_key, Unwrap(r.body))

\* an installation request was sent: its body holds the public key PEM
C25_Witness ==
    /\ last.op = "install_device"
    /\ Len(last.ret.requests) = 1
    /\ BodyLeaves(Unwrap(last.ret.requests[1].body))
           = {public_key_to_pem(PublicOf(last.input.private_key))}

\* ---------------------------------------------------------------------------
\* the back-off loop of send

\* every answer so far was a complete response with status 429
OnlyRateLimited == \A i \in DOMAIN received : received[i] = RateLimited

\* an answer with another status than 429 has arrived
OtherAnswered == \E i \in DOMAIN received : received[i].delivered /\ received[i].status # RateLimitStatus

\* C26: while every answer is a 429 the verified send has not ended and holds
\* no error, whatever the number of attempts, and each 429 is followed by a
\* further request; when the call is scheduled fairly, an answer with another
\* status is followed by the end of the call.
C26_RetriesUntilAnswered ==
    /\ [](OnlyRateLimited => (pc \in {"request", "status", "sleep"} /\ outcome = Pending(<<>>)))
    /\ [][pc = "sleep" => (pc' = "request" /\ sent' = sent)]_vars
    /\ \A n \in 1..MaxRateLimited :
           (pc = "sleep" /\ Len(sent) = n) ~> (Len(sent) = n + 1)
    /\ (OtherAnswered ~> (pc = "done"))

\* the call ended after MaxRateLimited answers 429 and one more request
C26_Witness ==
    /\ pc = "done"
    /\ Len(received) = MaxRateLimited + 1
    /\ \A i \in 1..MaxRateLimited : received[i] = RateLimited
    /\ received[MaxRateLimited + 1].status # RateLimitStatus

\* ---------------------------------------------------------------------------
\* cancellation of the back-off loop

\* C27: once the caller's timeout has fired while send is retrying on 429, the
\* call issues no further request.
C27_CancelStopsRetrying ==
    [][(cancelled /\ RateLimitedCount >= 1 /\ RateLimitedCount = Len(received))
           => sent' = sent]_vars

\* ---------------------------------------------------------------------------
\* the flat record of a credential

\* C29: a credential of each stage that was converted to the flat record and
\* stored comes back, when the file is loaded, without aborting, as a credential
\* of the same stage with the same field values; a Session comes back as the
\* UncheckedSession with the same fields.
C29_StorageRoundTrip ==
    (last.op = "load" /\ pc # "defaulted") =>
        /\ pc = "loaded"
        /\ stage = IF last.stage = "Session" THEN "UncheckedSession" ELSE last.stage
        /\ context = IF last.stage = "Session" THEN UncheckedSessionFromSessionContext(last.input)
                                               ELSE last.input

\* ---------------------------------------------------------------------------
\* persistence of the credential by the example

\* C28: after every successful stage transition of the recovery flow the file
\* holds the record of the credential reached, so that a stop of the process
\* at that point leaves the furthest stage completed in the file.
C28_StoredAfterEveryTransition ==
    (last.op \in TransitionOps /\ last.ret.kind = "Ok") =>
        stored = ContextStorageFrom(stage, context)

\* ---------------------------------------------------------------------------
\* two clients

\* the call c has ended as it ends when its client runs alone
EndsAsAlone(c) ==
    c.pc = "done" =>
        \/ c.outcome = send(c.call.messenger, c.call.T, c.call.method, c.call.endpoint,
                            c.call.body, c.received)
        \/ /\ c.outcome.why = "Failed to dump JSON to file"
           /\ SendPanic("Failed", c.outcome.requests, c.outcome.verified, c.outcome.parsed)
                  = send(c.call.messenger, c.call.T, c.call.method, c.call.endpoint,
                         c.call.body, c.received)

\* C30: with the steps of two clients interleaved in any order, each client's
\* call ends as it does when the client runs alone, with the requests signed
\* and authenticated by its own messenger, and no step of a client writes
\* state that the other client has written: the dump file written by one
\* client is not written by the other.
C30_ClientsIndependent ==
    /\ [](EndsAsAlone(RunningCall) /\ EndsAsAlone(peer))
    /\ [](\A i \in DOMAIN sent : sent[i] = send_request(call.messenger, call.method,
                                                        call.endpoint, call.body))
    /\ [][dump_file.exists => dump_file'.by = dump_file.by]_vars

\* ---------------------------------------------------------------------------
\* the messenger across calls

\* the calls of the client that go through send
BusinessOps ==
    {"get_user", "get_monetary_account", "get_monetary_accounts", "get_payment_request",
     "create_payment_request", "close_payment_request"}

\* C31: a call that goes through send leaves the messenger of the client as it
\* was (base url, app name, private key, server public key and bearer token),
\* whether the call was rate limited, answered with an Error list or with the
\* payload; the messenger of a client, and with it the bearer token, is only
\* ever set by build (set_authentication_token on a new messenger), and is
\* gone only when a call panics.
C31_SendLeavesMessenger ==
    [][/\ (last'.op \in BusinessOps /\ last'.ret.kind # "Panic") =>
              (IsSome(messenger) /\ messenger' = messenger)
       /\ (messenger' # messenger) =>
              \/ last'.op \in {"build", "ensure_session"} /\ last'.ret.kind # "Panic"
                   /\ messenger' = Some(SessionMessenger(context'))
              \/ last'.ret.kind = "Panic" /\ messenger' = None]_vars

\* a business call was rate limited, then answered, and the client still holds
\* the messenger with its bearer token
C31_Witness ==
    /\ last.op = "get_user"
    /\ last.ret.kind = "Ok"
    /\ Len(last.ret.requests) >= 2
    /\ IsSome(messenger)
    /\ Unwrap(messenger).authentication_token = Some(context.session_token)

\* ---------------------------------------------------------------------------
\* what a transition carries over

\* the transitions that are called on a credential with fields
CarryingOps == {"install_device", "register_device", "create_session", "check_session"}

\* C32: a successful stage transition gives a credential that holds every field
\* of the credential it was called on, with the same value, and the fields of
\* its own stage: the private key from Initialized on, the installation token
\* and the server public key from Installed on, the API secret and the device
\* id from Registered on; a transition only adds fields.
C32_TransitionCarriesFields ==
    (last.op \in CarryingOps /\ last.ret.kind = "Ok") =>
        /\ DOMAIN last.input = StageFields(last.stage)
        /\ DOMAIN context = StageFields(stage)
        /\ StageFields(last.stage) \subseteq StageFields(stage)
        /\ \A f \in StageFields(last.stage) : context[f] = last.input[f]

\* a device was registered: the credential has the five fields of Registered,
\* three of them carried over from Installed
C32_Witness ==
    /\ last.op = "register_device"
    /\ last.ret.kind = "Ok"
    /\ stage = "Registered"
    /\ Restrict(context, "Installed") = last.input

\* ---------------------------------------------------------------------------
\* the messenger of a client

\* C33: whenever a Client exists (built after create_session, after
\* check_session, or returned by ensure_session) its messenger carries the
\* session token of the client's credential as bearer token, verifies against
\* the server public key of that credential and signs with its private key;
\* the requests of the client's calls carry that session token.
C33_ClientMessengerMatchesCredential ==
    /\ stage = "Client" =>
           /\ IsSome(messenger)
           /\ Unwrap(messenger).authentication_token = Some(context.session_token)
           /\ Unwrap(messenger).verification_data = Some(context.bunq_public_key)
           /\ Unwrap(messenger).private_sign_key = context.private_key
    /\ (last.op \in BusinessOps /\ last.ret.kind = "Ok") =>
           \A i \in DOMAIN last.ret.requests :
               last.ret.requests[i].client_authentication = Some(context.session_token)
    /\ stage # "Client" => messenger = None

\* ensure_session returned a Client, whose messenger carries the session token
C33_Witness ==
    /\ last.op = "ensure_session"
    /\ last.ret.kind = "Ok"
    /\ stage = "Client"
    /\ Unwrap(messenger).authentication_token = Some(context.session_token)
    /\ Unwrap(messenger).verification_data = Some(context.bunq_public_key)

\* ---------------------------------------------------------------------------
\* the requests of one call

\* C34: every request send issues after a 429 is the request of the first
\* attempt: the same method, url, body, signature of the body under the same
\* key, and bearer token, which are those of the call.
C34_RetryRepeatsRequest ==
    \A i \in DOMAIN sent :
        /\ sent[i] = sent[1]
        /\ sent[i].method = call.method
        /\ sent[i].url = <<call.messenger.base_url, call.endpoint>>
        /\ sent[i].body = call.body
        /\ sent[i].client_authentication = call.messenger.authentication_token
        /\ SignedAsSent(sent[i], call.messenger.private_sign_key)

\* a POST with a body was sent again after every one of MaxRateLimited answers 429
C34_Witness ==
    /\ Len(sent) = MaxRateLimited + 1
    /\ RateLimitedCount = MaxRateLimited
    /\ IsSome(sent[Len(sent)].body)
    /\ IsSome(sent[Len(sent)].client_signature)

\* ---------------------------------------------------------------------------
\* the session check_session gives

\* C35: when check_session succeeds the Session has the session token, the
\* device id, the API secret, the installation token, the server public key and
\* the private key of the unchecked session, and its owner id is the id of the
\* user in the answer of the server to GET user.
C35_CheckedSessionKeepsFields ==
    (last.op = "check_session" /\ last.ret.kind = "Ok") =>
        /\ stage = "Session"
        /\ last.stage = "UncheckedSession"
        /\ context.session_token = last.input.session_token
        /\ context.registered_device_id = last.input.registered_device_id
        /\ context.bunq_api_key = last.input.bunq_api_key
        /\ context.installation_token = last.input.installation_token
        /\ context.bunq_public_key = last.input.bunq_public_key
        /\ context.private_key = last.input.private_key
        /\ Some(context.owner_id) = issued.owner_id
        /\ context.owner_id
               = into_result(DeserializeApiResponseBody("Single<User>",
                                 FinalAnswer(last.answers).body)).value.user_person.id

\* a session was checked, and the owner id is the last of the ids the server
\* can answer with, which is not the device id
C35_Witness ==
    /\ last.op = "check_session"
    /\ last.ret.kind = "Ok"
    /\ context.owner_id = V("u32", NumIds)
    /\ context.registered_device_id # context.owner_id

\* ---------------------------------------------------------------------------
\* where the recovery flow starts

\* the furthest stage a stored record holds
FurthestStage(record) ==
    IF IsSome(record.session_token) THEN "UncheckedSession"
    ELSE IF IsSome(record.registered_device_id) THEN "Registered"
    ELSE IF IsSome(record.installation_token) THEN "Installed"
    ELSE IF IsSome(record.private_key) THEN "Initialized"
    ELSE "Uninitialized"

\* the transition that leaves a stage
FirstTransition(s) ==
    CASE s = "UncheckedSession" -> "check_session"
      [] s = "Registered" -> "create_session"
      [] s = "Installed" -> "register_device"
      [] s = "Initialized" -> "install_device"
      [] s = "Uninitialized" -> "create_private_key"

\* C36: once the stored record is loaded the flow holds the credential of the
\* furthest stage the record has the fields of (session, else registration,
\* else installation, else initialization, else nothing), and the first
\* transition it attempts is the one of that stage, called on that credential.
C36_StartsAtFurthestStage ==
    /\ [](last.op = "load" =>
              /\ stage = FurthestStage(stored)
              /\ ContextTypeFromContextStorage(stored) = Ok(stage, context, <<>>))
    /\ [][(last.op = "load" /\ last'.op # "load") =>
              /\ last'.op = FirstTransition(FurthestStage(stored))
              /\ last'.stage = FurthestStage(stored)
              /\ last'.input = context]_vars

\* the flow started from a stored session and has checked it
C36_Witness ==
    /\ IsSome(stored.session_token)
    /\ last.op = "check_session"
    /\ last.stage = "UncheckedSession"
    /\ last.ret.kind = "Ok"
    /\ pc = "build"

\* ---------------------------------------------------------------------------
\* termination of the recovery flow

\* the position of the flow: the fallback levels in the order they can be
\* entered, then the transitions of a chain, then the end
Level(p) ==
    CASE p = "main" -> 0
      [] p = "try_from_session" -> 1
      [] p = "try_from_registration" -> 2
      [] p = "try_from_installation" -> 3
      [] p = "try_from_initialization" -> 4
      [] p = "try_from_uninitialized" -> 5
      [] p = "then_install_device" -> 6
      [] p = "then_register_device" -> 7
      [] p = "then_create_session" -> 8
      [] p = "build" -> 9
      [] p = "built" -> 10
      [] p \in {"saved", "failed", "aborted"} -> 11

\* C37: with every request answered by a response other than 429 in the end,
\* the recovery flow ends, with a Client (built, then saved) or with a failure
\* (main panics); every step moves the flow to a later position, so that each
\* fallback level is entered at most once and the transitions attempted are
\* bounded by the number of positions; before the end there is always a step
\* to take.
C37_RecoveryTerminates ==
    /\ [][Level(pc') > Level(pc)]_vars
    /\ [](pc \notin {"saved", "failed", "aborted"} => ENABLED NextRecovery)
    /\ <>(pc \in {"saved", "failed", "aborted"})
    /\ [](pc \in {"built", "saved"} => (stage = "Client" /\ IsSome(messenger)))

\* the flow started from a stored private key, the installation failed, the
\* flow fell back to a new key and went on to a Client
C37_Witness ==
    /\ pc = "built"
    /\ stage = "Client"
    /\ IsSome(stored.private_key)
    /\ ~IsSome(stored.installation_token)
    /\ context.private_key # parse_private_key(Unwrap(stored.private_key))

\* ---------------------------------------------------------------------------
\* the installation request

\* C38: install_device sends its request without a bearer token and with the
\* signature of its body, and sends it once: one request for the one answer,
\* whatever the status of the answer, 429 included; the answer's signature
\* header is not looked at, and what the call returns depends only on the body
\* received.
C38_InstallationSentOnceUnverified ==
    last.op = "install_device" =>
        /\ Len(last.answers) <= 1
        /\ Len(last.ret.requests) = Len(last.answers)
        /\ \A i \in 1..Len(last.ret.requests) :
               /\ last.ret.requests[i].client_authentication = None
               /\ IsSome(last.ret.requests[i].body)
               /\ IsSome(last.ret.requests[i].client_signature)
               /\ SignedAsSent(last.ret.requests[i], last.input.private_key)
        /\ \A i \in 1..Len(last.answers) :
               (last.answers[i].delivered /\ last.answers[i].readable) =>
                   \A status \in {200, RateLimitStatus},
                      signature \in {None, Some(NotBase64), last.answers[i].server_signature} :
                       install_device(last.input, TRUE,
                                      [last.answers[i] EXCEPT !.status = status,
                                                              !.server_signature = signature])
                           = last.ret

\* the installation was answered under status 429 and without a signature
\* header, and the device is installed after the one request
C38_Witness ==
    /\ last.op = "install_device"
    /\ last.ret.kind = "Ok"
    /\ stage = "Installed"
    /\ Len(last.ret.requests) = 1
    /\ last.ret.requests[1].client_authentication = None
    /\ last.answers[1].status = RateLimitStatus
    /\ ~IsSome(last.answers[1].server_signature)

====
